---- MODULE Spec2Model ----
(***************************************************************************)
(* Rustune: the MOD decoder's byte cursor and parser, the playback engine  *)
(* (ModEngine) and the two drivers of main.rs, as state machines.          *)
(*                                                                         *)
(* Numbers keep the width of their Rust type (u8, u16 saturating/wrapping  *)
(* operations are written out).  f32 values are held in fixed point with   *)
(* FracOne units per 1.0; +infinity (a division by a zero sample rate) is  *)
(* the value F32Inf.                                                       *)
(***************************************************************************)
EXTENDS Integers, Sequences, FiniteSets, TLC

VARIABLES
    engine,        \* the ModEngine (song is an index into Songs)
    fault,         \* "none", or the panic that ended the engine's thread
    buffer,        \* the output buffer of the last get_audio_buffer call
    ticks_total,   \* history: number of next_tick calls that returned
    reader,        \* a ByteReader and the outcome of the last call on it
    host,          \* main.rs: where main is, which driver it started
    parsed         \* modfile::parse: the input bytes and what parse made of them

vars == <<engine, fault, buffer, ticks_total, reader, host, parsed>>

----------------------------------------------------------------------------
(* Program constants *)

RowsPerPattern == 64
MaxVolume == 64
DefaultSpeed == 6
DefaultTempo == 125
DefaultPanning == 128
U8Max == 255
U16Max == 65535
PalClock == 7093789
OrderTableLen == 128

(* Bounds of the model *)

FracOne == 256          \* fixed-point units per 1.0 of an f32
MaxTicks == 800         \* next_tick calls explored per run
MaxAudioTicks == 8      \* next_tick calls explored per run of the host interface
MaxBufLen == 4          \* largest output buffer, in lanes
CursorCap == 2048       \* where the fixed-point playback cursor stops growing
UsizeMax == 1073741823  \* largest usize of the model's word

F32Inf == -1

Min(a, b) == IF a < b THEN a ELSE b
Max(a, b) == IF a > b THEN a ELSE b

saturating_add(a, b, max) == Min(a + b, max)
saturating_sub(a, b) == Max(a - b, 0)

----------------------------------------------------------------------------
(* Song data model (song.rs) and the bounded family of songs *)

Note(s, p, e, a) == [sample |-> s, period |-> p, effect |-> e, argument |-> a]

Sample(len, vol, roff, rlen) ==
    [length |-> len, finetune |-> 0, volume |-> vol,
     repeat_offset |-> roff, repeat_length |-> rlen]

\* The notes the songs of the family are built from.
NoteSet ==
    << Note(0, 0, 0, 0),        \* empty
       Note(1, 428, 0, 0),      \* trigger, instrument 1
       Note(0, 0, 10, 32),      \* A20: volume slide up 2
       Note(0, 0, 12, 80),      \* C50: set volume 80 (clamped)
       Note(2, 0, 10, 3),       \* instrument only, A03
       Note(0, 320, 1, 4),      \* trigger without instrument, portamento up
       Note(0, 0, 5, 0) >>      \* effect code outside the table

\* The first entries of the 128-entry pattern order tables; the rest is 0.
TablePrefixes == << <<0>>, <<0, 1>>, <<1, 0>> >>

NumNotes == Len(NoteSet)
NumSongs == Len(TablePrefixes) * NumNotes * NumNotes

SeqMax(s) == CHOOSE m \in {s[i] : i \in 1..Len(s)} : \A i \in 1..Len(s) : s[i] <= m

MkSong(prefix, motif, kind) ==
    LET table == [i \in 1..OrderTableLen |-> IF i <= Len(prefix) THEN prefix[i] ELSE 0]
        pattern_count == SeqMax(table) + 1
    IN  [ metadata |->
            [ samples |-> [i \in 1..31 |->
                             IF i = 1 THEN Sample(4, 48, 0, 0)
                             ELSE IF i = 2 THEN Sample(2, 200, 0, 2)
                             ELSE Sample(0, 0, 0, 0)],
              pattern_table |-> table,
              pattern_count |-> pattern_count,
              channel_count |-> 4,
              tracker |-> "ProTracker" ],
          patterns |->
            [p \in 1..pattern_count |->
               [r \in 1..RowsPerPattern |->
                  [c \in 1..4 |->
                     IF c = 1 THEN motif[((r - 1 + (p - 1)) % Len(motif)) + 1]
                     ELSE IF c = 2 THEN motif[(((r - 1) \div 2) % Len(motif)) + 1]
                     ELSE Note(0, 0, 0, 0)]]],
          samples |->
            [i \in 1..31 |->
               [kind |-> IF kind = "mixed"
                         THEN (IF i = 1 THEN "I8" ELSE "U8")
                         ELSE kind,
                data |-> IF i = 1 THEN <<100, -100, 50, -50>>
                         ELSE IF i = 2 THEN <<64, -64>>
                         ELSE <<>>]] ]

\* The PCM blocks' variant: the engine mixes I8 data; parse stores U8.
PcmKinds == <<"I8", "U8", "mixed">>

\* Motifs with the timing, jump and retrigger commands, and with a reference
\* to the last of the 31 instruments.
ExtraMotifs ==
    << << Note(0, 0, 15, 3), Note(0, 0, 0, 0) >>,          \* F03: speed 3
       << Note(0, 0, 15, 150), Note(0, 0, 0, 0) >>,        \* F96: tempo 150
       << Note(0, 0, 11, 1), Note(0, 0, 0, 0) >>,          \* B01: position jump
       << Note(0, 0, 0, 0), Note(0, 0, 13, 2) >>,          \* D02: pattern break
       << Note(1, 428, 14, 144), Note(0, 0, 14, 149) >>,   \* E90, E95: retrigger
       << Note(31, 428, 0, 0), Note(0, 0, 0, 0) >> >>      \* the last instrument

\* Songs 1..NumSongs hold I8 data; the same songs follow with U8 and mixed
\* data, and after them one two-pattern song per extra motif.
Songs ==
    [s \in 1..(NumSongs * Len(PcmKinds) + Len(ExtraMotifs)) |->
       IF s <= NumSongs * Len(PcmKinds)
       THEN MkSong(TablePrefixes[(((s - 1) % NumSongs) \div (NumNotes * NumNotes)) + 1],
                   << NoteSet[(((s - 1) \div NumNotes) % NumNotes) + 1],
                      NoteSet[((s - 1) % NumNotes) + 1] >>,
                   PcmKinds[((s - 1) \div NumSongs) + 1])
       ELSE MkSong(<<0, 1>>, ExtraMotifs[s - NumSongs * Len(PcmKinds)], "I8")]

ExtraSongs ==
    (NumSongs * Len(PcmKinds) + 1)..(NumSongs * Len(PcmKinds) + Len(ExtraMotifs))

SongOf(e) == Songs[e.song]

----------------------------------------------------------------------------
(* Effect interpreter (mod_engine.rs) *)

\* Variant: y is the low nibble of the argument.
split_nibbles_BothNibbles(x) == <<(x \div 16) % 16, x % 16>>

\* `let x = (x & 0xF0) >> 4; let y = x & 0x0F;`: y is taken from the new x.
split_nibbles(x) ==
    LET hi == (x \div 16) % 16
    IN  <<hi, hi % 16>>

from_effect_and_arg_bytes(effect, arg) ==
    LET n == split_nibbles(arg) IN
    CASE effect = 0 -> [tag |-> "Arpeggio", x |-> n[1], y |-> n[2]]
      [] effect = 1 -> [tag |-> "PortamentoUp", x |-> arg, y |-> 0]
      [] effect = 2 -> [tag |-> "PortamentoDown", x |-> arg, y |-> 0]
      [] effect = 3 -> [tag |-> "TonePortamento", x |-> arg, y |-> 0]
      [] effect = 4 -> [tag |-> "Vibrato", x |-> n[1], y |-> n[2]]
      [] effect = 10 -> [tag |-> "VolumeSlide", x |-> n[1], y |-> n[2]]
      [] effect = 11 -> [tag |-> "PositionJump", x |-> 0, y |-> 0]
      [] effect = 12 -> [tag |-> "SetVolume", x |-> 0, y |-> 0]
      [] effect = 13 -> [tag |-> "PatternBreak", x |-> 0, y |-> 0]
      [] effect = 14 ->
           ( CASE n[1] = 1 -> [tag |-> "FinePortamentoUp", x |-> n[2], y |-> 0]
               [] n[1] = 2 -> [tag |-> "FinePortamentoDown", x |-> n[2], y |-> 0]
               [] n[1] = 9 -> [tag |-> "RetriggerNote", x |-> n[2], y |-> 0]
               [] OTHER -> [tag |-> "None", x |-> 0, y |-> 0] )
      [] effect = 15 ->
           IF arg <= 31 THEN [tag |-> "SetSpeed", x |-> arg, y |-> 0]
           ELSE [tag |-> "SetTempo", x |-> arg, y |-> 0]
      [] OTHER -> [tag |-> "None", x |-> 0, y |-> 0]

\* Variant: an undecodable effect is skipped and the tick continues.
process_effects_IgnoresUnknown(ch, tick) ==
    LET eff == from_effect_and_arg_bytes(ch.effect, ch.effect_arg) IN
    eff.tag = "RetriggerNote" /\ eff.x = 0

\* process_effects panics: an undecodable effect, or `tick % note_tick` with 0.
process_effects_panics(ch, tick) ==
    LET eff == from_effect_and_arg_bytes(ch.effect, ch.effect_arg) IN
    \/ eff.tag = "None"
    \/ eff.tag = "RetriggerNote" /\ eff.x = 0

VolumeSlide(ch, tick, slide_up, slide_down) ==
    IF tick > 0
    THEN IF slide_up > 0
         THEN [ch EXCEPT !.volume = saturating_add(ch.volume, slide_up, U8Max)]
         ELSE IF slide_down > 0
              THEN [ch EXCEPT !.volume = saturating_sub(ch.volume, slide_down)]
              ELSE ch
    ELSE ch

SetVolume(ch, tick) ==
    IF tick = 0 THEN [ch EXCEPT !.volume = Min(ch.effect_arg, MaxVolume)] ELSE ch

\* Variant: without the early return on x = 0 and y = 0.
Arpeggio_NoZeroReturn(ch, tick, x, y) ==
    IF tick > 0
    THEN IF tick = 1
         THEN [ch EXCEPT !.arp_counter = 1, !.period = ch.base_period]
         ELSE LET m == ch.arp_counter % 3
                  offset == IF m = 1 THEN x ELSE IF m = 2 THEN y ELSE 0
              IN  [ch EXCEPT
                     !.period = saturating_add(ch.base_period, offset, U16Max),
                     !.arp_counter = (ch.arp_counter + 1) % (U8Max + 1)]
    ELSE ch

Arpeggio(ch, tick, x, y) ==
    IF tick > 0
    THEN IF x = 0 /\ y = 0 THEN ch
         ELSE IF tick = 1
              THEN [ch EXCEPT !.arp_counter = 1, !.period = ch.base_period]
              ELSE LET m == ch.arp_counter % 3
                       offset == IF m = 1 THEN x ELSE IF m = 2 THEN y ELSE 0
                   IN  [ch EXCEPT
                          !.period = saturating_add(ch.base_period, offset, U16Max),
                          !.arp_counter = (ch.arp_counter + 1) % (U8Max + 1)]
    ELSE ch

process_effects(ch, tick) ==
    LET eff == from_effect_and_arg_bytes(ch.effect, ch.effect_arg) IN
    CASE eff.tag = "Arpeggio" -> Arpeggio(ch, tick, eff.x, eff.y)
      [] eff.tag = "PortamentoUp" ->
           IF tick > 0
           THEN [ch EXCEPT !.period = saturating_sub(ch.base_period, eff.x),
                           !.base_period = saturating_sub(ch.base_period, eff.x)]
           ELSE ch
      [] eff.tag = "PortamentoDown" ->
           IF tick > 0
           THEN [ch EXCEPT !.period = saturating_add(ch.base_period, eff.x, U16Max),
                           !.base_period = saturating_add(ch.base_period, eff.x, U16Max)]
           ELSE ch
      \* target_period is read from self.period: neither comparison can hold
      [] eff.tag = "TonePortamento" -> ch
      [] eff.tag = "Vibrato" -> ch
      [] eff.tag = "VolumeSlide" -> VolumeSlide(ch, tick, eff.x, eff.y)
      [] eff.tag = "PositionJump" -> ch
      [] eff.tag = "SetVolume" -> SetVolume(ch, tick)
      [] eff.tag = "PatternBreak" -> ch
      [] eff.tag = "FinePortamentoUp" ->
           IF tick = 0
           THEN [ch EXCEPT !.period = saturating_sub(ch.base_period, eff.x)]
           ELSE ch
      [] eff.tag = "FinePortamentoDown" ->
           IF tick = 0
           THEN [ch EXCEPT !.period = saturating_add(ch.base_period, eff.x, U16Max)]
           ELSE ch
      [] eff.tag = "RetriggerNote" -> ch
      [] eff.tag = "SetSpeed" -> ch
      [] eff.tag = "SetTempo" -> ch
      [] OTHER -> ch

----------------------------------------------------------------------------
(* Playback engine (mod_engine.rs) *)

ChannelStateDefault ==
    [ sample_index |-> 0, volume |-> 64, period |-> 0, effect |-> 0,
      effect_arg |-> 0, panning |-> DefaultPanning,
      repeat_offset |-> 0, repeat_length |-> 0,
      position_in_sample |-> 0, sample_step |-> 0,
      base_period |-> 0, arp_counter |-> 0 ]

\* ModEngine::new
ModEngineNew(s) ==
    [ song |-> s,
      current_row |-> 0, current_pattern |-> 0,
      tick |-> 0, speed |-> DefaultSpeed, tempo |-> DefaultTempo,
      channel_count |-> 0,
      samples_per_tick |-> 0, samples_since_tick |-> 0,
      channels |-> [c \in 1..Songs[s].metadata.channel_count |-> ChannelStateDefault],
      sample_rate |-> 0 ]

\* Variant: reports the end whenever the cursor is back at the song's start.
is_finished_AtStart(e) == e.current_row = 0 /\ e.current_pattern = 0

is_finished(e) == e.current_row = RowsPerPattern

\* freq / sample_rate, freq = 7093789.2 / (period * 2); +inf at sample rate 0
StepOf(period, sample_rate) ==
    IF sample_rate = 0 THEN F32Inf
    ELSE ((PalClock * FracOne) \div (2 * period)) \div sample_rate

\* The tick-0 trigger logic for one channel (lines 391-431), given that the
\* metadata lookups are in range.
Trigger(e, ch, note) ==
    LET meta == SongOf(e).metadata.samples IN
    IF note.period # 0
    THEN LET nsi == IF note.sample = 0 THEN ch.sample_index ELSE note.sample
             c1 == [ch EXCEPT !.position_in_sample = 0,
                              !.base_period = note.period,
                              !.arp_counter = 0]
             c2 == IF nsi > 0
                   THEN [c1 EXCEPT !.repeat_offset = meta[nsi].repeat_offset,
                                   !.repeat_length = meta[nsi].repeat_length,
                                   !.volume = Min(meta[nsi].volume, MaxVolume),
                                   !.sample_index = nsi - 1]
                   ELSE c1
         IN  [c2 EXCEPT !.effect = note.effect, !.effect_arg = note.argument,
                        !.period = note.period, !.sample_step = 0]
    ELSE IF note.sample # 0
    THEN [ch EXCEPT !.repeat_offset = meta[note.sample].repeat_offset,
                    !.repeat_length = meta[note.sample].repeat_length,
                    !.volume = Min(meta[note.sample].volume, MaxVolume),
                    !.sample_index = note.sample - 1,
                    !.effect = note.effect, !.effect_arg = note.argument]
    ELSE [ch EXCEPT !.effect = note.effect, !.effect_arg = note.argument]

\* The index a trigger looks up in metadata.samples (1-based here), or 0 for none.
TriggerLookup(ch, note) ==
    IF note.period # 0
    THEN IF note.sample = 0 THEN ch.sample_index ELSE note.sample
    ELSE note.sample

CurrentLine(e) == SongOf(e).patterns[e.current_pattern + 1][e.current_row + 1]

\* One channel's share of a tick: trigger at tick 0, effect, playback step.
ChannelTick(e, ch, note) ==
    LET c1 == IF e.tick = 0 THEN Trigger(e, ch, note) ELSE ch
        c2 == process_effects(c1, e.tick)
    IN  IF c2.period # 0
        THEN [c2 EXCEPT !.sample_step = StepOf(c2.period, e.sample_rate)]
        ELSE c2

\* Variant: `self.tick > self.speed` in place of `>=`.
AdvanceCursor_OffByOne(e) ==
    LET t == e.tick + 1 IN
    IF t > e.speed
    THEN LET r == e.current_row + 1 IN
         IF r = RowsPerPattern
         THEN LET p == e.current_pattern + 1 IN
              [e EXCEPT !.tick = 0, !.current_row = 0,
                        !.current_pattern =
                            IF p >= Len(SongOf(e).patterns) THEN 0 ELSE p]
         ELSE [e EXCEPT !.tick = 0, !.current_row = r]
    ELSE [e EXCEPT !.tick = t]

\* Variant: past the last pattern the row stays at 64 and nothing wraps.
AdvanceCursor_StopsAtEnd(e) ==
    LET t == e.tick + 1 IN
    IF t >= e.speed
    THEN LET r == e.current_row + 1 IN
         IF r = RowsPerPattern /\ e.current_pattern + 1 < Len(SongOf(e).patterns)
         THEN [e EXCEPT !.tick = 0, !.current_row = 0,
                        !.current_pattern = e.current_pattern + 1]
         ELSE [e EXCEPT !.tick = 0, !.current_row = r]
    ELSE [e EXCEPT !.tick = t]

\* Lines 444-460: the tick, row and pattern counters.
AdvanceCursor(e) ==
    LET t == e.tick + 1 IN
    IF t >= e.speed
    THEN LET r == e.current_row + 1 IN
         IF r = RowsPerPattern
         THEN LET p == e.current_pattern + 1 IN
              [e EXCEPT !.tick = 0, !.current_row = 0,
                        !.current_pattern =
                            IF p >= Len(SongOf(e).patterns) THEN 0 ELSE p]
         ELSE [e EXCEPT !.tick = 0, !.current_row = r]
    ELSE [e EXCEPT !.tick = t]

\* The panics of next_tick: an index or unwrap out of range, a fatal effect.
next_tick_panics(e) ==
    LET song == SongOf(e)
        n_meta == Len(song.metadata.samples)
    IN  \/ e.current_pattern >= Len(song.patterns)
        \/ e.current_row >= RowsPerPattern
        \/ LET line == CurrentLine(e) IN
           \/ e.tick = 0 /\ \E i \in 1..Len(line) : line[i].sample >= n_meta
           \/ e.tick = 0 /\ Len(e.channels) > Len(line)
           \/ e.tick = 0 /\ \E i \in 1..Len(e.channels) :
                  LET k == TriggerLookup(e.channels[i], line[i]) IN
                  k > n_meta
           \/ \E i \in 1..Len(e.channels) :
                  process_effects_panics(
                      IF e.tick = 0 THEN Trigger(e, e.channels[i], line[i])
                      ELSE e.channels[i],
                      e.tick)

next_tick(e) ==
    LET line == CurrentLine(e)
        chans == [i \in 1..Len(e.channels) |-> ChannelTick(e, e.channels[i], line[i])]
    IN  AdvanceCursor([e EXCEPT !.channels = chans])

----------------------------------------------------------------------------
(* Mixer (mod_engine.rs, get_audio_buffer) *)

\* Output lanes are held in units of 1 / (128 * 64 * 255): an i8 sample over
\* 128, times a volume over 64, times a pan weight over 255.
LaneOne == 128 * 64 * 255

clamp(v, lo, hi) == IF v < lo THEN lo ELSE IF v > hi THEN hi ELSE v

\* `position_in_sample as usize`: the integer part; +inf saturates.
CursorIndex(pos) == IF pos = F32Inf THEN UsizeMax ELSE pos \div FracOne

\* `position_in_sample += sample_step` in f32: +inf absorbs, and the sum stops
\* growing once the cursor is large (held here at CursorCap).
CursorAdd(pos, step) ==
    IF pos = F32Inf \/ step = F32Inf THEN F32Inf ELSE Min(pos + step, CursorCap)

\* Whether the channel has I8 data to mix (the `_ => continue` arm otherwise).
HasData(song, ch) == song.samples[ch.sample_index + 1].kind = "I8"

\* The channel's contribution to one frame, before panning.
ChannelOut(song, ch) ==
    LET data == song.samples[ch.sample_index + 1].data
        pos == CursorIndex(ch.position_in_sample)
        sample_val == IF pos < Len(data) THEN data[pos + 1] ELSE 0
    IN  sample_val * Min(ch.volume, MaxVolume)

\* The channel after one frame: its cursor moves by its step.
MixChannel(song, ch) ==
    IF HasData(song, ch)
    THEN [ch EXCEPT !.position_in_sample = CursorAdd(ch.position_in_sample, ch.sample_step)]
    ELSE ch

RECURSIVE SumOver(_, _)
SumOver(f, n) == IF n = 0 THEN 0 ELSE f[n] + SumOver(f, n - 1)

\* The left and right sums of one frame over all channels.
FrameLeft(song, chans) ==
    SumOver([i \in 1..Len(chans) |->
               IF HasData(song, chans[i])
               THEN ChannelOut(song, chans[i]) * (255 - chans[i].panning) ELSE 0],
            Len(chans))

FrameRight(song, chans) ==
    SumOver([i \in 1..Len(chans) |->
               IF HasData(song, chans[i])
               THEN ChannelOut(song, chans[i]) * chans[i].panning ELSE 0],
            Len(chans))

\* The lanes one frame writes: left, right, then silence.
FrameLanes(song, chans, num_channels) ==
    [ch \in 1..num_channels |->
       IF ch = 1 THEN clamp(FrameLeft(song, chans), -LaneOne, LaneOne)
       ELSE IF ch = 2 THEN clamp(FrameRight(song, chans), -LaneOne, LaneOne)
       ELSE 0]

\* The frame loop: the channels and the lanes written after n more frames.
RECURSIVE RenderFrames(_, _, _, _, _)
RenderFrames(song, chans, num_channels, n, out) ==
    IF n = 0 THEN [channels |-> chans, out |-> out]
    ELSE RenderFrames(song,
                      [i \in 1..Len(chans) |-> MixChannel(song, chans[i])],
                      num_channels, n - 1,
                      out \o FrameLanes(song, chans, num_channels))

\* get_audio_buffer panics: `buffer.len() / num_channels` with no channels,
\* or `self.song.samples[channel.sample_index]` out of range.
get_audio_buffer_panics(e, len) ==
    \/ e.channel_count = 0
    \/ /\ e.channel_count # 0
       /\ len \div e.channel_count > 0
       /\ \E i \in 1..Len(e.channels) :
              e.channels[i].sample_index >= Len(SongOf(e).samples)

\* Variant: the fill also adds the frames it rendered to samples_since_tick.
get_audio_buffer_Accounts(e, len) ==
    LET frames == len \div e.channel_count
        r == RenderFrames(SongOf(e), e.channels, e.channel_count, frames, <<>>)
    IN  [ engine |-> [e EXCEPT !.channels = r.channels,
                               !.samples_since_tick = e.samples_since_tick + frames],
          buffer |-> r.out \o [i \in 1..(len - frames * e.channel_count) |-> 0] ]

\* get_audio_buffer on a zeroed buffer of len lanes: the engine and the buffer after.
get_audio_buffer(e, len) ==
    LET frames == len \div e.channel_count
        r == RenderFrames(SongOf(e), e.channels, e.channel_count, frames, <<>>)
    IN  [ engine |-> [e EXCEPT !.channels = r.channels],
          buffer |-> r.out \o [i \in 1..(len - frames * e.channel_count) |-> 0] ]

\* update_samples_per_tick: (sample_rate as f32 * tick_duration) as usize,
\* tick_duration = 2.5 / tempo.
update_samples_per_tick(e) ==
    [e EXCEPT !.samples_per_tick = (e.sample_rate * 5) \div (2 * e.tempo)]

set_sample_rate(e, value) == update_samples_per_tick([e EXCEPT !.sample_rate = value])

set_channel_count(e, value) == [e EXCEPT !.channel_count = value]

----------------------------------------------------------------------------
(* Values of the parts a specification does not run *)

ReaderIdle == [data |-> <<>>, position |-> 0, build |-> "release",
               last |-> [op |-> "none"]]
HostIdle == [pc |-> "idle"]
ParsedIdle == [data |-> <<>>, build |-> "release", result |-> [tag |-> "none"]]

----------------------------------------------------------------------------
(* The engine driven by next_tick calls *)

Init ==
    /\ \E s \in (1..NumSongs) \cup ExtraSongs : engine = ModEngineNew(s)
    /\ fault = "none"
    /\ buffer = <<>>
    /\ ticks_total = 0
    /\ reader = ReaderIdle
    /\ host = HostIdle
    /\ parsed = ParsedIdle

NextTick ==
    /\ fault = "none"
    /\ ticks_total < MaxTicks
    /\ ~next_tick_panics(engine)
    /\ engine' = next_tick(engine)
    /\ ticks_total' = ticks_total + 1
    /\ UNCHANGED <<fault, buffer, reader, host, parsed>>

NextTickPanic ==
    /\ fault = "none"
    /\ ticks_total < MaxTicks
    /\ next_tick_panics(engine)
    /\ fault' = "panic in next_tick"
    /\ UNCHANGED <<engine, buffer, ticks_total, reader, host, parsed>>

Next == NextTick \/ NextTickPanic

Spec == Init /\ [][Next]_vars

----------------------------------------------------------------------------
(* The host-facing engine interface: any order of the TrackerEngine calls *)

AudioSongs == {9, 12, 14, 156, 306}
HostChannelCounts == {1, 2}
HostSampleRates == {8000}

InitAudio ==
    /\ \E s \in AudioSongs : engine = ModEngineNew(s)
    /\ fault = "none"
    /\ buffer = <<>>
    /\ ticks_total = 0
    /\ reader = ReaderIdle
    /\ host = HostIdle
    /\ parsed = ParsedIdle

SetChannelCount ==
    /\ fault = "none"
    /\ \E v \in HostChannelCounts : engine' = set_channel_count(engine, v)
    /\ UNCHANGED <<fault, buffer, ticks_total, reader, host, parsed>>

SetSampleRate ==
    /\ fault = "none"
    /\ \E v \in HostSampleRates : engine' = set_sample_rate(engine, v)
    /\ UNCHANGED <<fault, buffer, ticks_total, reader, host, parsed>>

GetAudioBuffer ==
    /\ fault = "none"
    /\ \E len \in 0..MaxBufLen :
          /\ ~get_audio_buffer_panics(engine, len)
          /\ LET r == get_audio_buffer(engine, len)
             IN  engine' = r.engine /\ buffer' = r.buffer
    /\ UNCHANGED <<fault, ticks_total, reader, host, parsed>>

GetAudioBufferPanic ==
    /\ fault = "none"
    /\ \E len \in 0..MaxBufLen : get_audio_buffer_panics(engine, len)
    /\ fault' = "panic in get_audio_buffer"
    /\ UNCHANGED <<engine, buffer, ticks_total, reader, host, parsed>>

AudioNextTick ==
    /\ ticks_total < MaxAudioTicks
    /\ NextTick

AudioNextTickPanic ==
    /\ ticks_total < MaxAudioTicks
    /\ NextTickPanic

NextAudio ==
    \/ SetChannelCount
    \/ SetSampleRate
    \/ GetAudioBuffer
    \/ GetAudioBufferPanic
    \/ AudioNextTick
    \/ AudioNextTickPanic

SpecAudio == InitAudio /\ [][NextAudio]_vars

----------------------------------------------------------------------------
(* Claims about the sequencer, checked under Spec *)

TicksPerPattern(e) == e.speed * RowsPerPattern

\* C1: every next_tick call that returns advances the sequencer by exactly one
\* tick: after n calls from construction the tick is n mod speed, the row is
\* (n div speed) mod 64 and the pattern is (n div (speed x 64)) mod pattern
\* count.  So exactly speed x 64 calls lead from (row 0, tick 0) of a pattern
\* to (row 0, tick 0) of its successor (pattern 0 after the last), and no
\* smaller number of calls changes current_pattern.
C1_OneTickPerCall ==
    /\ engine.tick = ticks_total % engine.speed
    /\ engine.current_row = (ticks_total \div engine.speed) % RowsPerPattern
    /\ engine.current_pattern =
           (ticks_total \div TicksPerPattern(engine)) % Len(SongOf(engine).patterns)

\* A two-pattern song right after its first speed x 64 calls.
C1_Witness ==
    /\ ticks_total = TicksPerPattern(engine)
    /\ Len(SongOf(engine).patterns) = 2
    /\ engine.current_pattern = 1
    /\ engine.current_row = 0
    /\ engine.tick = 0

\* The order-table position the engine has reached: one per completed pattern.
OrderPosition == (ticks_total \div TicksPerPattern(engine)) % OrderTableLen

\* C2: at each row-64 rollover the engine moves to the next entry of the
\* pattern order table and plays the pattern that entry names, wrapping only
\* after the table's last entry, and it never stops implicitly.
C2_FollowsOrderTable ==
    ticks_total > 0 =>
        /\ engine.current_pattern =
               SongOf(engine).metadata.pattern_table[OrderPosition + 1]
        /\ ~is_finished(engine)

\* The pattern index is past the last pattern without having wrapped.
PastLastEntry(e) == e.current_pattern >= Len(SongOf(e).patterns)

C4_VolumeInRange ==
    \A i \in 1..Len(engine.channels) :
        engine.channels[i].volume \in 0..MaxVolume

----------------------------------------------------------------------------
(* Claims about the mixer, checked under SpecAudio *)

\* C8: get_audio_buffer never aborts, in any reachable engine state and for
\* any buffer, and what it writes is a mix within the output range.
C8_FillNeverAborts ==
    /\ fault # "panic in get_audio_buffer"
    /\ \A i \in 1..Len(buffer) : buffer[i] \in (-LaneOne)..LaneOne

\* The sequencer's part of the engine: everything but the playback cursors.
SequencerState(e) ==
    [ current_pattern |-> e.current_pattern, current_row |-> e.current_row,
      tick |-> e.tick, speed |-> e.speed, tempo |-> e.tempo,
      samples_since_tick |-> e.samples_since_tick,
      samples_per_tick |-> e.samples_per_tick,
      sample_rate |-> e.sample_rate, channel_count |-> e.channel_count,
      song |-> e.song,
      channels |-> [i \in 1..Len(e.channels) |->
                      [e.channels[i] EXCEPT !.position_in_sample = 0]] ]

\* C9: get_audio_buffer changes only the channels' playback cursors and the
\* output buffer; the sequencer state is the same before and after the call.
C9_FillKeepsSequencer ==
    [][GetAudioBuffer => SequencerState(engine') = SequencerState(engine)]_vars

\* A buffer has been filled with sound while a playback cursor moved.
C9_Witness ==
    /\ fault = "none"
    /\ \E i \in 1..Len(buffer) : buffer[i] # 0
    /\ \E i \in 1..Len(engine.channels) :
           /\ engine.channels[i].position_in_sample > 0
           /\ engine.channels[i].volume # MaxVolume

----------------------------------------------------------------------------
(* The byte cursor (bytereader.rs) *)

\* The two builds differ in what an integer overflow does: a debug build
\* panics, a release build wraps.
Builds == {"debug", "release"}

ByteReaderNew(data) == [data |-> data, position |-> 0]

\* Variant: `position >= size` in place of `position > size`.
seek_Exclusive(r, position) ==
    IF position >= Len(r.data)
    THEN [tag |-> "Err", reader |-> r, value |-> "Out of bounds seek"]
    ELSE [tag |-> "Ok", reader |-> [r EXCEPT !.position = position],
          value |-> r.position]

\* Variant: the old position is returned and the cursor stays where it is.
seek_KeepsPosition(r, position) ==
    IF position > Len(r.data)
    THEN [tag |-> "Err", reader |-> r, value |-> "Out of bounds seek"]
    ELSE [tag |-> "Ok", reader |-> r, value |-> r.position]

\* seek: Err past the end, else the position moves and the old one is returned.
\* A result is Ok with its value, Err with the Read fault's message, or a panic.
seek(r, position) ==
    IF position > Len(r.data)
    THEN [tag |-> "Err", reader |-> r, value |-> "Out of bounds seek"]
    ELSE [tag |-> "Ok", reader |-> [r EXCEPT !.position = position],
          value |-> r.position]

\* read_bytes: `self.position + count` is a usize sum.  When it overflows, a
\* debug build panics at the addition; a release build wraps it, and the
\* slice `position..wrapped` then starts after its end, which panics.
read_bytes(r, count, build) ==
    LET sum == r.position + count
        end == IF sum > UsizeMax THEN sum - (UsizeMax + 1) ELSE sum
    IN  IF sum > UsizeMax /\ build = "debug"
        THEN [tag |-> "panic", reader |-> r, value |-> "attempt to add with overflow"]
        ELSE IF end > Len(r.data)
        THEN [tag |-> "Err", reader |-> r, value |-> "Not enough data"]
        ELSE IF r.position > end
        THEN [tag |-> "panic", reader |-> r, value |-> "slice index starts after its end"]
        ELSE [tag |-> "Ok", reader |-> [r EXCEPT !.position = end],
              value |-> SubSeq(r.data, r.position + 1, end)]

\* The buffers, counts and seek targets the cursor is exercised with; the
\* 12-byte buffer is the one of the read_multiple_bytes test.
ReaderInputs == { <<>>, <<1, 2, 3>>, <<1, 2, 3, 4, 5, 6, 6, 5, 4, 3, 2, 1>> }
ReadCounts == {0, 1, 2, 6, 13, UsizeMax - 1, UsizeMax}
SeekTargets == {0, 1, 2, 3, 6, 12, 13, UsizeMax}

EngineIdle == ModEngineNew(1)

InitReader ==
    /\ \E d \in ReaderInputs, b \in Builds :
          reader = [data |-> d, position |-> 0, build |-> b,
                    last |-> [op |-> "none"]]
    /\ engine = EngineIdle
    /\ fault = "none"
    /\ buffer = <<>>
    /\ ticks_total = 0
    /\ host = HostIdle
    /\ parsed = ParsedIdle

LastCall(op, before, arg, r) ==
    [op |-> op, before |-> before, arg |-> arg, tag |-> r.tag, value |-> r.value]

ReadBytes ==
    /\ fault = "none"
    /\ \E count \in ReadCounts :
          LET r == read_bytes(reader, count, reader.build)
          IN  /\ r.tag # "panic"
              /\ reader' = [r.reader EXCEPT
                               !.last = LastCall("read_bytes", reader.position, count, r)]
    /\ UNCHANGED <<engine, fault, buffer, ticks_total, host, parsed>>

ReadBytesPanic ==
    /\ fault = "none"
    /\ \E count \in ReadCounts :
          LET r == read_bytes(reader, count, reader.build)
          IN  /\ r.tag = "panic"
              /\ reader' = [r.reader EXCEPT
                               !.last = LastCall("read_bytes", reader.position, count, r)]
    /\ fault' = "panic in read_bytes"
    /\ UNCHANGED <<engine, buffer, ticks_total, host, parsed>>

Seek ==
    /\ fault = "none"
    /\ \E position \in SeekTargets :
          LET r == seek(reader, position)
          IN  reader' = [r.reader EXCEPT
                           !.last = LastCall("seek", reader.position, position, r)]
    /\ UNCHANGED <<engine, fault, buffer, ticks_total, host, parsed>>

NextReader == ReadBytes \/ ReadBytesPanic \/ Seek

SpecReader == InitReader /\ [][NextReader]_vars

----------------------------------------------------------------------------
(* Claims about the byte cursor, checked under SpecReader *)

\* C6: read_bytes(n) at position p over a buffer of length L succeeds if and
\* only if p + n <= L; on success it returns exactly the bytes [p, p + n) and
\* sets the position to p + n; on failure it returns a Read fault and leaves
\* the position unchanged.  The position stays within 0..L and no read
\* panics or reaches outside the buffer.
C6_ReadBytesContract ==
    /\ reader.position \in 0..Len(reader.data)
    /\ reader.last.op = "read_bytes" =>
          LET p == reader.last.before
              n == reader.last.arg
          IN  /\ reader.last.tag \in {"Ok", "Err"}
              /\ reader.last.tag = "Ok" <=> p + n <= Len(reader.data)
              /\ reader.last.tag = "Ok" =>
                    /\ reader.last.value = SubSeq(reader.data, p + 1, p + n)
                    /\ reader.position = p + n
              /\ reader.last.tag = "Err" => reader.position = p

----------------------------------------------------------------------------
(* main.rs: the audio (pull) driver and the tick-thread (push) driver *)

MaxFrames == 12        \* frames rendered per run
MaxMainTicks == 8      \* next_tick calls explored per run of main
MaxCallbackLen == 6    \* largest callback buffer, in lanes
MaxCallbacks == 4      \* callbacks per run

MainSongs == {9, 14, 156}
HostConfigs == [channels : {1, 2}, sample_rate : {40, 100, 150}]

\* `if let Ok(config) = ... { audio } else { tick thread }`
TakesAudioBranch(config_ok) == config_ok

\* Variant: the tick thread is spawned after the if, for every outcome.
TakesPushBranch_Always(config_ok) == TRUE

TakesPushBranch(config_ok) == ~config_ok

\* In the operators below `CHOOSE r \in {F(x) : x \in {v}} : TRUE` is F(v)
\* with v evaluated once.

\* Variant of the catch-up loop: `while samples_since_tick > samples_per_tick`.
RECURSIVE CatchUp_Strict(_, _)
CatchUp_Strict(e, n) ==
    IF e.samples_since_tick <= e.samples_per_tick
    THEN [engine |-> e, ticks |-> n, panic |-> FALSE]
    ELSE IF next_tick_panics(e)
    THEN [engine |-> e, ticks |-> n, panic |-> TRUE]
    ELSE LET stepped == [next_tick(e) EXCEPT
                           !.samples_since_tick = @ - e.samples_per_tick]
         IN  CHOOSE r \in {CatchUp_Strict(x, n + 1) : x \in {stepped}} : TRUE

\* The catch-up loop of the callback, for samples_per_tick > 0: the engine
\* after it, the number of next_tick calls that returned, and whether one
\* panicked.
RECURSIVE CatchUp(_, _)
CatchUp(e, n) ==
    IF e.samples_since_tick < e.samples_per_tick
    THEN [engine |-> e, ticks |-> n, panic |-> FALSE]
    ELSE IF next_tick_panics(e)
    THEN [engine |-> e, ticks |-> n, panic |-> TRUE]
    ELSE LET stepped == [next_tick(e) EXCEPT
                           !.samples_since_tick = @ - e.samples_per_tick]
         IN  CHOOSE r \in {CatchUp(x, n + 1) : x \in {stepped}} : TRUE

\* The callback after the buffer is filled: the frame accounting, the
\* catch-up loop and the kill message.  With samples_per_tick = 0 the loop
\* condition stays true: the callback is left inside its loop (spins).
after_fill(e2, out_buffer, frames_rendered) ==
    IF e2.samples_per_tick = 0
    THEN [engine |-> e2, buffer |-> out_buffer, frames |-> frames_rendered,
          ticks |-> 0, fault |-> "none", spins |-> TRUE, kill |-> FALSE]
    ELSE CHOOSE out \in
           { [engine |-> r.engine, buffer |-> out_buffer,
              frames |-> frames_rendered, ticks |-> r.ticks,
              fault |-> IF r.panic THEN "panic in next_tick" ELSE "none",
              spins |-> FALSE,
              kill |-> ~r.panic /\ is_finished(r.engine)] : r \in {CatchUp(e2, 0)} } : TRUE

\* The data callback on a buffer of len lanes for a stream of `channels`
\* lanes per frame.
audio_callback(e, len, channels) ==
    IF get_audio_buffer_panics(e, len)
    THEN [engine |-> e, buffer |-> <<>>, frames |-> 0, ticks |-> 0,
          fault |-> "panic in get_audio_buffer", spins |-> FALSE, kill |-> FALSE]
    ELSE
      LET frames_rendered == len \div channels
      IN  CHOOSE out \in
            { CHOOSE o \in
                { after_fill(e2, filled.buffer, frames_rendered) :
                    e2 \in {[filled.engine EXCEPT
                               !.samples_since_tick = @ + frames_rendered]} } : TRUE :
              filled \in {get_audio_buffer(e, len)} } : TRUE

InitMain ==
    /\ \E s \in MainSongs : engine = ModEngineNew(s)
    /\ fault = "none"
    /\ buffer = <<>>
    /\ ticks_total = 0
    /\ reader = ReaderIdle
    /\ parsed = ParsedIdle
    /\ host = [ pc |-> "start", stream |-> "none", callback |-> "idle",
                tick_thread |-> "none", channels |-> 0,
                audio_started |-> FALSE, tick_started |-> FALSE,
                accessed |-> {}, kill_sent |-> FALSE,
                frames_total |-> 0, callbacks |-> 0 ]

\* main from the `if let` to the end of the branch it takes: the audio branch
\* configures the engine and moves it into the stream's callback (returning
\* early when the stream cannot be built or played); the other branch moves
\* it into the tick thread.
MainStart ==
    /\ fault = "none"
    /\ host.pc = "start"
    /\ \E config_ok \in BOOLEAN, config \in HostConfigs, stream_ok \in BOOLEAN :
          LET audio == TakesAudioBranch(config_ok)
              push == TakesPushBranch(config_ok)
          IN  /\ engine' = IF audio
                           THEN set_sample_rate(set_channel_count(engine, config.channels),
                                                config.sample_rate)
                           ELSE engine
              /\ host' = [host EXCEPT
                            !.pc = IF audio /\ ~stream_ok THEN "exit"
                                   ELSE IF audio THEN "in_block" ELSE "recv",
                            !.stream = IF audio /\ stream_ok THEN "alive" ELSE "none",
                            !.channels = IF audio THEN config.channels ELSE 0,
                            !.audio_started = audio /\ stream_ok,
                            !.tick_started = push,
                            !.tick_thread = IF push THEN "running" ELSE "none"]
    /\ UNCHANGED <<fault, buffer, ticks_total, reader, parsed>>

\* One run of the stream's data callback, on a buffer of one of the given
\* sizes, within the given numbers of callbacks and frames.
AudioCallbackOf(lens, max_callbacks, max_frames) ==
    /\ fault = "none"
    /\ host.stream = "alive"
    /\ host.callback = "idle"
    /\ host.callbacks < max_callbacks
    /\ \E len \in lens :
          \E out \in {audio_callback(engine, len, host.channels)} :
              /\ host.frames_total + out.frames <= max_frames
              /\ engine' = out.engine
              /\ buffer' = out.buffer
              /\ fault' = out.fault
              /\ ticks_total' = ticks_total + out.ticks
              /\ host' = [host EXCEPT
                            !.accessed = @ \cup {"audio"},
                            !.callback = IF out.spins THEN "looping" ELSE "idle",
                            !.kill_sent = @ \/ out.kill,
                            !.frames_total = @ + out.frames,
                            !.callbacks = @ + 1]
    /\ UNCHANGED <<reader, parsed>>

AudioCallback == AudioCallbackOf(0..MaxCallbackLen, MaxCallbacks, MaxFrames)

\* One more iteration of a catch-up loop that cannot end (samples_per_tick = 0).
CatchUpSpinUpTo(max_ticks) ==
    /\ fault = "none"
    /\ host.callback = "looping"
    /\ ticks_total < max_ticks
    /\ IF next_tick_panics(engine)
       THEN fault' = "panic in next_tick" /\ UNCHANGED <<engine, ticks_total>>
       ELSE /\ engine' = next_tick(engine)
            /\ ticks_total' = ticks_total + 1
            /\ UNCHANGED fault
    /\ UNCHANGED <<buffer, reader, host, parsed>>

CatchUpSpin == CatchUpSpinUpTo(MaxMainTicks)

\* One iteration of the tick thread's loop.
PushTickUpTo(max_ticks) ==
    /\ fault = "none"
    /\ host.tick_thread = "running"
    /\ ticks_total < max_ticks
    /\ IF is_finished(engine)
       THEN /\ host' = [host EXCEPT !.tick_thread = "done",
                                    !.accessed = @ \cup {"tick"}]
            /\ UNCHANGED <<engine, fault, ticks_total>>
       ELSE IF next_tick_panics(engine)
       THEN /\ fault' = "panic in next_tick"
            /\ host' = [host EXCEPT !.accessed = @ \cup {"tick"}]
            /\ UNCHANGED <<engine, ticks_total>>
       ELSE /\ engine' = next_tick(engine)
            /\ ticks_total' = ticks_total + 1
            /\ host' = [host EXCEPT !.accessed = @ \cup {"tick"}]
            /\ UNCHANGED fault
    /\ UNCHANGED <<buffer, reader, parsed>>

PushTick == PushTickUpTo(MaxMainTicks)

\* The audio branch's block ends: `stream` goes out of scope.
LeaveBlock ==
    /\ host.pc = "in_block"
    /\ host' = [host EXCEPT !.pc = "recv", !.stream = "dropped"]
    /\ UNCHANGED <<engine, fault, buffer, ticks_total, reader, parsed>>

\* `blocker.recv().unwrap()`: returns on a kill message; fails when the only
\* sender went away with the stream's callback; blocks otherwise.
MainRecv ==
    /\ host.pc = "recv"
    /\ host.kill_sent \/ host.stream = "dropped"
    /\ host' = [host EXCEPT !.pc = "exit"]
    /\ fault' = IF host.kill_sent \/ fault # "none" THEN fault ELSE "panic in main"
    /\ UNCHANGED <<engine, buffer, ticks_total, reader, parsed>>

NextMain ==
    \/ MainStart
    \/ AudioCallback
    \/ CatchUpSpin
    \/ PushTick
    \/ LeaveBlock
    \/ MainRecv

SpecMain == InitMain /\ [][NextMain]_vars

----------------------------------------------------------------------------
(* Claims about the drivers, checked under SpecMain *)

\* C7: in pull mode with samples_per_tick > 0, a callback that renders F
\* frames calls next_tick exactly floor((samples_since_tick + F) /
\* samples_per_tick) times and returns with samples_since_tick <
\* samples_per_tick; over the callbacks so far the ticks advanced equal
\* floor(frames rendered / samples_per_tick).
C7_CatchUpTicks ==
    [][(AudioCallback /\ engine.samples_per_tick > 0 /\ fault' = "none") =>
          LET F == host'.frames_total - host.frames_total
              spt == engine.samples_per_tick
          IN  /\ ticks_total' - ticks_total = (engine.samples_since_tick + F) \div spt
              /\ engine'.samples_since_tick < spt
              /\ ticks_total' = host'.frames_total \div spt]_vars

\* Several callbacks have run, ticks were advanced and frames are left over.
C7_Witness ==
    /\ fault = "none"
    /\ host.callbacks >= 3
    /\ ticks_total >= 3
    /\ engine.samples_per_tick = 3
    /\ engine.samples_since_tick = 2

----------------------------------------------------------------------------
(* Text and numbers read through the byte cursor (bytereader.rs) *)

\* std::str::from_utf8 on bytes[i..]: well-formed UTF-8 only.
RECURSIVE valid_utf8_from(_, _)
valid_utf8_from(bytes, i) ==
    LET n == Len(bytes)
        b0 == bytes[i]
        cont(k) == i + k <= n /\ bytes[i + k] \in 128..191
    IN  IF i > n THEN TRUE
        ELSE IF b0 < 128 THEN valid_utf8_from(bytes, i + 1)
        ELSE IF b0 \in 194..223
        THEN cont(1) /\ valid_utf8_from(bytes, i + 2)
        ELSE IF b0 \in 224..239
        THEN /\ cont(1) /\ cont(2)
             /\ (b0 = 224 => bytes[i + 1] >= 160)
             /\ (b0 = 237 => bytes[i + 1] <= 159)
             /\ valid_utf8_from(bytes, i + 3)
        ELSE IF b0 \in 240..244
        THEN /\ cont(1) /\ cont(2) /\ cont(3)
             /\ (b0 = 240 => bytes[i + 1] >= 144)
             /\ (b0 = 244 => bytes[i + 1] <= 143)
             /\ valid_utf8_from(bytes, i + 4)
        ELSE FALSE

valid_utf8(bytes) == valid_utf8_from(bytes, 1)

\* trim_end_matches("\0")
RECURSIVE trim_end_nul(_)
trim_end_nul(bytes) ==
    IF bytes # <<>> /\ bytes[Len(bytes)] = 0
    THEN trim_end_nul(SubSeq(bytes, 1, Len(bytes) - 1))
    ELSE bytes

\* read_str: a failed read leaves the cursor; bytes that are not UTF-8 fail
\* after the cursor has moved past them.  A string is held as its bytes.
read_str(r, length, build) ==
    LET rb == read_bytes(r, length, build)
    IN  IF rb.tag # "Ok" THEN rb
        ELSE IF ~valid_utf8(rb.value)
        THEN [tag |-> "Err", reader |-> rb.reader, value |-> "UTF-8 error"]
        ELSE [rb EXCEPT !.value = trim_end_nul(rb.value)]

read_u8(r, build) ==
    LET rb == read_bytes(r, 1, build)
    IN  IF rb.tag # "Ok" THEN rb
        ELSE [rb EXCEPT !.value = rb.value[1]]

\* `as i8`
read_i8(r, build) ==
    LET rb == read_u8(r, build)
    IN  IF rb.tag # "Ok" THEN rb
        ELSE [rb EXCEPT !.value = IF @ >= 128 THEN @ - 256 ELSE @]

\* read_u16 of a BigEndian reader (parse constructs no other)
read_u16(r, build) ==
    LET rb == read_bytes(r, 2, build)
    IN  IF rb.tag # "Ok" THEN rb
        ELSE [rb EXCEPT !.value = rb.value[1] * 256 + rb.value[2]]

----------------------------------------------------------------------------
(* Layout and dialect detection (formats/modfile.rs) *)

Digit(d) == 48 + d
TagNNCH(n) == << Digit(n \div 10), Digit(n % 10), 67, 72 >>     \* "nnCH"
TagNCHN(n) == << Digit(n), 67, 72, 78 >>                        \* "nCHN"
TagTDZ(n) == << 84, 68, 90, Digit(n) >>                         \* "TDZn"
TagMK == << 77, 46, 75, 46 >>                                   \* "M.K."
TagMK2 == << 77, 33, 75, 33 >>                                  \* "M!K!"
TagFLT(n) == << 70, 76, 84, Digit(n) >>                         \* "FLTn"
TagCD81 == << 67, 68, 56, 49 >>                                 \* "CD81"
TagOCTA == << 79, 67, 84, 65 >>                                 \* "OCTA"
NulTag == << 0, 0, 0, 0 >>                                      \* "\0\0\0\0"

KNOWN_TAGS ==
    {TagMK, TagMK2, TagFLT(4), TagFLT(8), TagCD81}
      \cup {TagNCHN(n) : n \in {2, 4, 5, 6, 7, 8, 9}}
      \cup {TagNNCH(n) : n \in {10, 12, 14, 16, 18, 20, 22, 24, 26, 28, 30, 32}}
      \cup {TagNNCH(n) : n \in {11, 13, 15}}
      \cup {TagTDZ(n) : n \in 1..3}

\* The chars of a well-formed string, each as `c as u8` (the code point's
\* low 8 bits).
RECURSIVE chars_as_u8(_)
chars_as_u8(bytes) ==
    IF bytes = <<>> THEN <<>>
    ELSE LET b0 == bytes[1]
             width == IF b0 < 128 THEN 1 ELSE IF b0 < 224 THEN 2
                      ELSE IF b0 < 240 THEN 3 ELSE 4
             low == IF width = 1 THEN b0
                    ELSE ((bytes[width - 1] % 4) * 64) + (bytes[width] % 64)
         IN  <<low>> \o chars_as_u8(SubSeq(bytes, width + 1, Len(bytes)))

\* The only char that is '\0' is the byte 0.
has_nul(bytes) == \E i \in 1..Len(bytes) : bytes[i] = 0

detect_sample_count(format_tag) ==
    IF format_tag \in KNOWN_TAGS THEN 31
    ELSE LET cs == chars_as_u8(format_tag)
             printable_ascii == /\ ~has_nul(format_tag)
                                /\ \A i \in 1..Len(cs) : cs[i] \in 32..126
         IN  IF printable_ascii THEN 31 ELSE 15

RECURSIVE SumLengths(_, _)
SumLengths(sample_meta, n) ==
    IF n = 0 THEN 0 ELSE sample_meta[n].length + SumLengths(sample_meta, n - 1)

\* Variant: the pattern bytes are not divided by the pattern count.
guess_IgnoresPatternCount(file_size, sample_meta, pattern_count, build) ==
    LET sample_count == Len(sample_meta)
        taken == 150 + 30 * sample_count
                   + (IF sample_count = 31 THEN 4 ELSE 0)
                   + SumLengths(sample_meta, sample_count)
    IN  IF file_size < taken \/ pattern_count = 0 THEN [tag |-> "panic", value |-> 0]
        ELSE [tag |-> "Ok", value |-> ((file_size - taken) \div 256) % 256]

\* guess_channel_count: the subtractions are u32; when they underflow a debug
\* build panics and a release build wraps to 2^32 - d.  The wrapped value is
\* divided in two 16-bit limbs.  The quotient's second byte is the `as u8`.
guess_channel_count(file_size, sample_meta, pattern_count, build) ==
    LET sample_count == Len(sample_meta)
        taken == 150 + 30 * sample_count
                   + (IF sample_count = 31 THEN 4 ELSE 0)
                   + SumLengths(sample_meta, sample_count)
        d == taken - file_size
        hi == 65535 - ((d - 1) \div 65536)
        lo == 65535 - ((d - 1) % 65536)
    IN  IF file_size < taken /\ build = "debug" THEN [tag |-> "panic", value |-> 0]
        ELSE IF pattern_count = 0 THEN [tag |-> "panic", value |-> 0]
        ELSE IF file_size >= taken
        THEN [tag |-> "Ok",
              value |-> (((file_size - taken) \div pattern_count) \div 256) % 256]
        ELSE [tag |-> "Ok",
              value |-> (((hi % pattern_count) * 65536 + lo) \div pattern_count) \div 256]

\* str::parse::<u8> of the tag's first two bytes: digits, or a '+' and a digit.
parse_u8(two) ==
    IF two[1] \in 48..57 /\ two[2] \in 48..57
    THEN [ok |-> TRUE, value |-> (two[1] - 48) * 10 + (two[2] - 48)]
    ELSE IF two[1] = 43 /\ two[2] \in 48..57
    THEN [ok |-> TRUE, value |-> two[2] - 48]
    ELSE [ok |-> FALSE, value |-> 0]

\* The match arms of identify_format_and_channels.
TagTable ==
    [t \in {TagMK, TagMK2} |-> <<4, "ProTracker">>]
      @@ (TagFLT(4) :> <<4, "Startrekker">>) @@ (TagFLT(8) :> <<8, "Startrekker">>)
      @@ (TagCD81 :> <<8, "Falcon">>) @@ (TagOCTA :> <<8, "Oktalyzer">>)
      @@ (TagNCHN(2) :> <<2, "FastTracker">>)
      @@ (TagNCHN(4) :> <<4, "FastOrNoiseTracker">>)
      @@ (TagNCHN(6) :> <<6, "FastTracker">>) @@ (TagNCHN(8) :> <<8, "FastTracker">>)
      @@ [t \in {TagTDZ(n) : n \in 1..3} |-> <<t[4] - 48, "TakeTracker">>]
      @@ [t \in {TagNCHN(n) : n \in {5, 7, 9}} |-> <<t[1] - 48, "TakeTracker">>]
      @@ [t \in {TagNNCH(n) : n \in {11, 13, 15}} |->
            <<(t[1] - 48) * 10 + (t[2] - 48), "TakeTracker">>]

\* Variant: without the yyCH detection of the `_` arm.
identify_WithoutYYCH(tag, file_size, sample_metadata, pattern_count, build) ==
    IF tag \in DOMAIN TagTable
    THEN [tag |-> "Ok", channel_count |-> TagTable[tag][1], tracker |-> TagTable[tag][2]]
    ELSE
      LET g == guess_channel_count(file_size, sample_metadata, pattern_count, build)
      IN  [tag |-> g.tag, channel_count |-> g.value, tracker |-> "Generic"]

identify_format_and_channels(tag, file_size, sample_metadata, pattern_count, build) ==
    IF tag \in DOMAIN TagTable
    THEN [tag |-> "Ok", channel_count |-> TagTable[tag][1], tracker |-> TagTable[tag][2]]
    ELSE
      LET n == Len(tag)
          ends_with_CH == n >= 2 /\ tag[n - 1] = 67 /\ tag[n] = 72
          yy == parse_u8(SubSeq(tag, 1, 2))
          g == guess_channel_count(file_size, sample_metadata, pattern_count, build)
      IN  IF ends_with_CH /\ yy.ok /\ yy.value \in 10..32 /\ yy.value % 2 = 0
          THEN [tag |-> "Ok", channel_count |-> yy.value, tracker |-> "FastTracker"]
          ELSE [tag |-> g.tag, channel_count |-> g.value, tracker |-> "Generic"]

----------------------------------------------------------------------------
(* The decoder proper (formats/modfile.rs) *)

\* `read_u16()? * 2` is a u16 product: past 65535 a debug build panics and a
\* release build wraps.
times2(w, build) ==
    IF w * 2 <= U16Max THEN [tag |-> "Ok", value |-> w * 2]
    ELSE IF build = "debug" THEN [tag |-> "panic", value |-> 0]
    ELSE [tag |-> "Ok", value |-> (w * 2) % (U16Max + 1)]

\* What `?` hands on when a read failed or panicked.
Stopped(res) == res

Overflowed(res) == [res EXCEPT !.tag = "panic", !.value = "attempt to multiply with overflow"]

finetune_of(raw) ==
    LET nibble == raw % 16
    IN  IF nibble >= 8 THEN -(nibble % 8) ELSE nibble % 8

\* read_sample: one 30-byte instrument record.
read_sample(r, build) ==
    CHOOSE out \in {
      IF name.tag # "Ok" THEN Stopped(name) ELSE
      CHOOSE o1 \in {
        IF w1.tag # "Ok" THEN Stopped(w1) ELSE
        IF times2(w1.value, build).tag = "panic" THEN Overflowed(w1) ELSE
        CHOOSE o2 \in {
          IF ft.tag # "Ok" THEN Stopped(ft) ELSE
          CHOOSE o3 \in {
            IF vol.tag # "Ok" THEN Stopped(vol) ELSE
            CHOOSE o4 \in {
              IF w2.tag # "Ok" THEN Stopped(w2) ELSE
              IF times2(w2.value, build).tag = "panic" THEN Overflowed(w2) ELSE
              CHOOSE o5 \in {
                IF w3.tag # "Ok" THEN Stopped(w3) ELSE
                IF times2(w3.value, build).tag = "panic" THEN Overflowed(w3) ELSE
                LET repeat_length == times2(w3.value, build).value
                IN  [tag |-> "Ok", reader |-> w3.reader,
                     value |-> [name |-> name.value,
                                length |-> times2(w1.value, build).value,
                                finetune |-> finetune_of(ft.value),
                                volume |-> vol.value,
                                repeat_offset |-> times2(w2.value, build).value,
                                repeat_length |-> IF repeat_length = 2 THEN 0
                                                  ELSE repeat_length]]
                : w3 \in {read_u16(w2.reader, build)} } : TRUE
              : w2 \in {read_u16(vol.reader, build)} } : TRUE
            : vol \in {read_u8(ft.reader, build)} } : TRUE
          : ft \in {read_u8(w1.reader, build)} } : TRUE
        : w1 \in {read_u16(name.reader, build)} } : TRUE
      : name \in {read_str(r, 22, build)} } : TRUE

\* `for index in 0..sample_count { read_sample(&mut reader)? ... }`
RECURSIVE read_samples(_, _, _, _)
read_samples(r, count, acc, build) ==
    IF count = 0 THEN [tag |-> "Ok", reader |-> r, value |-> acc]
    ELSE CHOOSE out \in {
           IF smp.tag # "Ok" THEN Stopped(smp)
           ELSE read_samples(smp.reader, count - 1, Append(acc, smp.value), build)
           : smp \in {read_sample(r, build)} } : TRUE

\* The bit unpacking of read_note.
\* Variant: the instrument number is taken from byte 2 alone.
unpack_note_LowNibble(bytes) ==
    Note(bytes[3] \div 16,
         ((bytes[1] % 16) * 256) + bytes[2],
         bytes[3] % 16,
         bytes[4])

unpack_note(bytes) ==
    Note(((bytes[1] \div 16) * 16) + (bytes[3] \div 16),
         ((bytes[1] % 16) * 256) + bytes[2],
         bytes[3] % 16,
         bytes[4])

\* read_note: 4 bytes, unpacked.
read_note(r, build) ==
    LET rb == read_bytes(r, 4, build)
    IN  IF rb.tag # "Ok" THEN rb
        ELSE [rb EXCEPT !.value = unpack_note(rb.value)]

\* read_pattern: 64 lines of channel_count notes, 4 bytes each, read one
\* after the other; the first note that does not fit ends it with an Err
\* (the cursor then stands after the last whole note).
read_pattern(r, channel_count, build) ==
    LET need == RowsPerPattern * channel_count * 4
        left == Len(r.data) - r.position
        at(row, c) == r.position + (((row - 1) * channel_count + (c - 1)) * 4)
    IN  IF need > left
        THEN [tag |-> "Err",
              reader |-> [r EXCEPT !.position = @ + (left \div 4) * 4],
              value |-> "Not enough data"]
        ELSE [tag |-> "Ok", reader |-> [r EXCEPT !.position = @ + need],
              value |-> [row \in 1..RowsPerPattern |->
                           [c \in 1..channel_count |->
                              unpack_note(SubSeq(r.data, at(row, c) + 1, at(row, c) + 4))]]]

\* `for _ in 0..pattern_count { read_pattern(&mut reader, channel_count)? }`
RECURSIVE read_patterns(_, _, _, _, _)
read_patterns(r, count, channel_count, acc, build) ==
    IF count = 0 THEN [tag |-> "Ok", reader |-> r, value |-> acc]
    ELSE CHOOSE out \in {
           IF pat.tag # "Ok" THEN Stopped(pat)
           ELSE read_patterns(pat.reader, count - 1, channel_count,
                              Append(acc, pat.value), build)
           : pat \in {read_pattern(r, channel_count, build)} } : TRUE

\* `reader.read_bytes(length).map_err(..)?`
read_pcm_block(r, length, build) == read_bytes(r, length, build)

\* Variant: an instrument that declares no PCM bytes gets no block.
RECURSIVE read_pcm_SkipsEmpty(_, _, _, _, _)
read_pcm_SkipsEmpty(r, sample_metadata, i, acc, build) ==
    IF i > Len(sample_metadata) THEN [tag |-> "Ok", reader |-> r, value |-> acc]
    ELSE CHOOSE out \in {
           IF blk.tag # "Ok" THEN Stopped(blk)
           ELSE read_pcm_SkipsEmpty(
                    blk.reader, sample_metadata, i + 1,
                    IF sample_metadata[i].length = 0 THEN acc
                    ELSE Append(acc, [kind |-> "U8", data |-> blk.value]), build)
           : blk \in {read_pcm_block(r, sample_metadata[i].length, build)} } : TRUE

\* `for i in 0..sample_count { ... samples.push(PCMData::U8(sample)) }`
RECURSIVE read_pcm(_, _, _, _, _)
read_pcm(r, sample_metadata, i, acc, build) ==
    IF i > Len(sample_metadata) THEN [tag |-> "Ok", reader |-> r, value |-> acc]
    ELSE CHOOSE out \in {
           IF blk.tag # "Ok" THEN Stopped(blk)
           ELSE read_pcm(blk.reader, sample_metadata, i + 1,
                         Append(acc, [kind |-> "U8", data |-> blk.value]), build)
           : blk \in {read_pcm_block(r, sample_metadata[i].length, build)} } : TRUE

\* The ProTracker listing of pattern 0: `patterns.get(0).unwrap()` and
\* `sample_metadata.get(note.sample as usize).unwrap()`.
listing_panics(patterns, sample_metadata) ==
    \/ patterns = <<>>
    \/ \E row \in 1..Len(patterns[1]) : \E c \in 1..Len(patterns[1][row]) :
           patterns[1][row][c].sample >= Len(sample_metadata)

\* How parse ended: with a Song, a Read fault or a panic; the step it ended
\* in, and whether it ended because that step's read came up short.
Ended(tag, step, short) == [tag |-> tag, step |-> step, short |-> short, song |-> <<>>]

Failed(res, step) ==
    Ended(IF res.tag = "Err" THEN "Read" ELSE "panic", step,
          res.tag = "Err" /\ res.value # "UTF-8 error")

\* parse after the tag peek: the header, the patterns, the PCM blocks.
parse_body(data, format, build) ==
    LET sample_count == detect_sample_count(format)
    IN
    CHOOSE out \in {
      IF title.tag # "Ok" THEN Failed(title, "title") ELSE
      CHOOSE o1 \in {
        IF metas.tag # "Ok" THEN Failed(metas, "instrument records") ELSE
        CHOOSE o2 \in {
          IF played.tag # "Ok" THEN Failed(played, "count and jump bytes") ELSE
          CHOOSE o3 \in {
            IF end_jmp.tag # "Ok" THEN Failed(end_jmp, "count and jump bytes") ELSE
            CHOOSE o4 \in {
              IF table.tag # "Ok" THEN Failed(table, "pattern order table") ELSE
              LET top == SeqMax(table.value) + 1
                  pattern_count == IF top > U8Max THEN 0 ELSE top
                  skipped == IF sample_count = 31
                             THEN seek(table.reader, table.reader.position + 4)
                             ELSE [tag |-> "Ok", reader |-> table.reader, value |-> 0]
              IN
              IF top > U8Max /\ build = "debug"
              THEN Ended("panic", "pattern count", FALSE) ELSE
              IF skipped.tag # "Ok" THEN Failed(skipped, "tag skip") ELSE
              CHOOSE o5 \in {
                IF ident.tag # "Ok" THEN Ended("panic", "channel count", FALSE) ELSE
                CHOOSE o6 \in {
                  IF pats.tag # "Ok" THEN Failed(pats, "pattern data") ELSE
                  CHOOSE o7 \in {
                    IF pcm.tag # "Ok" THEN Failed(pcm, "sample data") ELSE
                    IF ident.tracker = "ProTracker"
                         /\ listing_panics(pats.value, metas.value)
                    THEN Ended("panic", "listing", FALSE) ELSE
                    [ tag |-> "Song", step |-> "end", short |-> FALSE,
                      song |->
                        [ metadata |->
                            [ name |-> title.value,
                              samples |-> metas.value,
                              pattern_table |-> table.value,
                              pattern_count |-> pattern_count,
                              channel_count |-> ident.channel_count,
                              end_jump |-> end_jmp.value,
                              format |-> format,
                              tracker |-> ident.tracker ],
                          patterns |-> pats.value,
                          samples |-> pcm.value ] ]
                    : pcm \in {read_pcm(pats.reader, metas.value, 1, <<>>, build)} } : TRUE
                  : pats \in {read_patterns(skipped.reader, pattern_count,
                                            ident.channel_count, <<>>, build)} } : TRUE
                : ident \in {identify_format_and_channels(format, Len(data), metas.value,
                                                          pattern_count, build)} } : TRUE
              : table \in {read_bytes(end_jmp.reader, 128, build)} } : TRUE
            : end_jmp \in {read_i8(played.reader, build)} } : TRUE
          : played \in {read_u8(metas.reader, build)} } : TRUE
        : metas \in {read_samples(title.reader, sample_count, <<>>, build)} } : TRUE
      : title \in {read_str(ByteReaderNew(data), 20, build)} } : TRUE

\* parse: the length check, the tag peek (an unreadable tag counts as
\* "\0\0\0\0"), then the decoding from offset 0.
\* Variant: a failed peek gives the empty string.
peek_format_Empty(at_tag, build) ==
    LET peek == read_str(at_tag, 4, build)
    IN  IF peek.tag = "Ok" THEN peek.value ELSE <<>>

\* Lines 198-200: the tag peek; a failed read_str gives "\0\0\0\0".
peek_format(at_tag, build) ==
    LET peek == read_str(at_tag, 4, build)
    IN  IF peek.tag = "Ok" THEN peek.value ELSE NulTag

\* Lines 191-203: the layout parse settles on before it reads the title.
parse_layout(data, build) ==
    LET at_tag == seek(ByteReaderNew(data), 1080)
    IN  IF at_tag.tag = "Err" THEN [tag |-> "Read"]
        ELSE CHOOSE out \in {
               [tag |-> "Layout", format |-> f,
                sample_count |-> detect_sample_count(f)]
               : f \in {peek_format(at_tag.reader, build)} } : TRUE

parse(data, build) ==
    LET at_tag == seek(ByteReaderNew(data), 1080)
    IN  IF at_tag.tag = "Err" THEN Ended("Read", "tag offset", TRUE)
        ELSE CHOOSE out \in {
               parse_body(data, f, build)
               : f \in {peek_format(at_tag.reader, build)} } : TRUE

\* Song::new (song.rs): files not named *.mod are refused, the rest is parsed.
SongNew(extension, data, build) ==
    IF extension # "mod" THEN Ended("Io", "extension", FALSE)
    ELSE parse(data, build)

----------------------------------------------------------------------------
(* The inputs parse is run on: module files, whole and cut short *)

Zeros(n) == [i \in 1..n |-> 0]

\* Big-endian 16-bit word
Word(w) == << w \div 256, w % 256 >>

\* One 30-byte instrument record.
RecordBytes(name, words, finetune, volume, repeat_words, repeat_len_words) ==
    name \o Zeros(22 - Len(name)) \o Word(words) \o <<finetune, volume>>
      \o Word(repeat_words) \o Word(repeat_len_words)

\* The inverse of read_note's bit unpacking.
NoteBytes(n) ==
    << ((n.sample \div 16) * 16) + (n.period \div 256), n.period % 256,
       ((n.sample % 16) * 16) + n.effect, n.argument >>

FileKinds == {"MK", "2CHN", "ABCD", "old15"}
FileQuirks == {"none", "table255", "bigword", "badsample"}
FileTables == { <<0>>, <<0, 1>> }

KindTag(kind) ==
    IF kind = "MK" THEN TagMK
    ELSE IF kind = "2CHN" THEN TagNCHN(2)
    ELSE IF kind = "ABCD" THEN <<65, 66, 67, 68>>
    ELSE <<>>

KindChannels(kind) == IF kind = "2CHN" THEN 2 ELSE 4

\* The PCM bytes of instruments 1 and 2; the other instruments are empty.
Pcm1 == <<100, 156, 50, 206>>
Pcm2 == <<64, 192, 64, 192, 64, 192>>

\* The whole file of a description: title, instrument records, the two
\* count bytes, the order table, the tag (31-instrument layout), the
\* patterns and the PCM blocks.
MkFile(kind, table, quirk) ==
    LET N == IF kind = "old15" THEN 15 ELSE 31
        channels == KindChannels(kind)
        pattern_count == SeqMax(table) + 1
        records ==
          [i \in 1..N |->
             IF i = 1 THEN RecordBytes(<<65>>, Len(Pcm1) \div 2, 9, 48, 0, 1)
             ELSE IF i = 2 THEN RecordBytes(<<66, 50>>, Len(Pcm2) \div 2, 0, 64, 1, 2)
             ELSE IF i = 3 /\ quirk = "bigword" THEN RecordBytes(<<>>, 40000, 0, 0, 0, 0)
             ELSE RecordBytes(<<>>, 0, 0, 0, 0, 0)]
        line(p, row) ==
          [c \in 1..channels |->
             IF c = 1 THEN NoteBytes(Note(1, 428, 0, 0))
             ELSE IF c = 2 /\ p = 1 /\ row = 1 /\ quirk = "badsample"
             THEN NoteBytes(Note(32, 0, 0, 0))
             ELSE NoteBytes(Note(0, 0, 0, 0))]
        Flat(seqs) == [k \in 1..(Len(seqs) * Len(seqs[1])) |->
                         seqs[((k - 1) \div Len(seqs[1])) + 1][((k - 1) % Len(seqs[1])) + 1]]
        pattern(p) == Flat([row \in 1..RowsPerPattern |-> Flat(line(p, row))])
    IN  <<83, 79, 78, 71>> \o Zeros(16)
          \o Flat(records)
          \o <<Len(table), 127>>
          \o [i \in 1..OrderTableLen |->
                IF i <= Len(table) THEN table[i]
                ELSE IF i = 3 /\ quirk = "table255" THEN 255 ELSE 0]
          \o KindTag(kind)
          \o Flat([p \in 1..pattern_count |-> pattern(p)])
          \o Pcm1 \o Pcm2

\* The first size bytes of a file (zero padded when size is past its end).
CutTo(file, size) ==
    IF size <= Len(file) THEN SubSeq(file, 1, size)
    ELSE file \o Zeros(size - Len(file))

\* Sizes that end a file inside each part of it, at its end, and past it.
CutSizes(kind, full) ==
    LET header == IF kind = "old15" THEN 600 ELSE 1084
        pcm == Len(Pcm1) + Len(Pcm2)
    IN  { 0, 10, 100, header - 131, header - 130, header - 60, 1079, 1080, 1082, 1084,
          header + 5, full - pcm - 1, full - pcm + 1, full - 1, full, full + 2 }

ParseInputs ==
    { [kind |-> k, table |-> t, quirk |-> q] :
        k \in FileKinds, t \in FileTables, q \in FileQuirks }

InitParse ==
    /\ \E d \in ParseInputs, b \in Builds, ext \in {"mod", "xm"} :
          /\ d.quirk = "none" \/ d.kind = "MK"
          /\ \E file \in {MkFile(d.kind, d.table, d.quirk)} :
                \E size \in CutSizes(d.kind, Len(file)) :
                   parsed = [ data |-> CutTo(file, size), build |-> b,
                              extension |-> ext,
                              kind |-> d.kind, quirk |-> d.quirk, full |-> Len(file),
                              result |-> [tag |-> "none"] ]
    /\ engine = EngineIdle
    /\ fault = "none"
    /\ buffer = <<>>
    /\ ticks_total = 0
    /\ reader = ReaderIdle
    /\ host = HostIdle

\* Song::new on the file.
LoadSong ==
    /\ parsed.result.tag = "none"
    /\ \E res \in {SongNew(parsed.extension, parsed.data, parsed.build)} :
          parsed' = [parsed EXCEPT !.result = res]
    /\ UNCHANGED <<engine, fault, buffer, ticks_total, reader, host>>

NextParse == LoadSong

SpecParse == InitParse /\ [][NextParse]_vars

----------------------------------------------------------------------------
(* Claims about the decoder, checked under SpecParse *)

\* The input ends inside its title, instrument records, count and jump
\* bytes, order table, pattern data or PCM blocks: it is shorter than the
\* file it was cut from, and the cut is not inside the 4-byte tag.
TruncatedAtDecodingStep ==
    /\ Len(parsed.data) < parsed.full
    /\ ~(parsed.kind # "old15" /\ Len(parsed.data) \in 1080..1083)

\* C5: parse applied to an input that is truncated at a decoding step (title,
\* instrument records, count/jump bytes, order table, pattern data or a PCM
\* block) never returns a Song.
C5_TruncatedNeverSong ==
    (parsed.result.tag # "none" /\ TruncatedAtDecodingStep)
        => parsed.result.tag # "Song"

----------------------------------------------------------------------------
(* Claims about the effect interpreter, checked under Spec *)

\* The effect codes with no arm in from_effect_and_arg_bytes.
UnknownEffectCodes == 5..9

\* The effect code channel i holds when process_effects runs in the next
\* next_tick call: the note's code at tick 0 (every trigger branch records
\* it), the code recorded earlier at the other ticks.
RecordedEffect(e, i) ==
    IF e.tick = 0 THEN CurrentLine(e)[i].effect ELSE e.channels[i].effect

\* Every code of 0x5..0x9 fails to decode, whatever its argument.
UnknownCodesUndecodable ==
    \A code \in UnknownEffectCodes, arg \in 0..U8Max :
        from_effect_and_arg_bytes(code, arg).tag = "None"

\* C11: when a channel's recorded effect code is outside the effect table
\* (0x5 through 0x9), next_tick aborts playback with a fatal fault at the tick
\* where the effect is applied; it does not skip the command and go on.
C11_UnknownEffectAborts ==
    /\ UnknownCodesUndecodable
    /\ [][ ( /\ fault = "none"
             /\ \E i \in 1..Len(engine.channels) :
                    RecordedEffect(engine, i) \in UnknownEffectCodes )
           => ( fault' = "panic in next_tick" /\ engine' = engine ) ]_vars

\* Playback has aborted on a row that carries an effect of 0x5..0x9, after
\* at least one full row was played.
C11_Witness ==
    /\ fault = "panic in next_tick"
    /\ ticks_total >= DefaultSpeed
    /\ engine.tick = 0
    /\ \E i \in 1..Len(engine.channels) :
           RecordedEffect(engine, i) \in UnknownEffectCodes

----------------------------------------------------------------------------
(* The tag steps of parse on their own: every 4-byte tag over a byte alphabet *)

\* NUL, the bounds of the printable range and their neighbours, and the two
\* bytes of U+0141 (0xC5 0x81), a char whose low 8 bits are 'A'.
TagAlphabet == {0, 31, 32, 65, 126, 127, 129, 197}

TagInputs ==
    {<<a, b, c, d>> : a \in TagAlphabet, b \in TagAlphabet,
                      c \in TagAlphabet, d \in TagAlphabet}
      \cup KNOWN_TAGS \cup {TagOCTA}
      \cup {TagNNCH(n) : n \in {8, 17, 33, 34, 98}}
      \cup {TagNCHN(n) : n \in {1, 3}}

\* A file that holds nothing but zeros before its tag.
TagFile(tag_bytes) == Zeros(1080) \o tag_bytes

InitTag ==
    /\ \E t \in TagInputs, b \in Builds :
          parsed = [tag_bytes |-> t, build |-> b, result |-> [tag |-> "none"]]
    /\ engine = EngineIdle
    /\ fault = "none"
    /\ buffer = <<>>
    /\ ticks_total = 0
    /\ reader = ReaderIdle
    /\ host = HostIdle

\* parse up to its choice of layout.
ParseLayout ==
    /\ parsed.result.tag = "none"
    /\ \E res \in {parse_layout(TagFile(parsed.tag_bytes), parsed.build)} :
          parsed' = [parsed EXCEPT !.result = res]
    /\ UNCHANGED <<engine, fault, buffer, ticks_total, reader, host>>

\* What identify_format_and_channels is given besides the tag: the file
\* size, the instrument lengths and the pattern count.
IdentifyInputs ==
    [ file_size : {0, 600, 1084, 2108, 3140},
      lengths : {"empty", "one8"},
      pattern_count : {0, 1, 2} ]

\* sample_count instrument records; with "one8" the first holds 8 PCM bytes,
\* with "full" each holds the most a record can declare (2 x 32767 bytes).
MetaOf(sample_count, lengths) ==
    [i \in 1..sample_count |->
       [ name |-> <<>>,
         length |-> IF lengths = "one8" /\ i = 1 THEN 8
                    ELSE IF lengths = "full" THEN U16Max - 1 ELSE 0,
         finetune |-> 0, volume |-> 0, repeat_offset |-> 0, repeat_length |-> 0 ]]

\* Lines 249-250: the channel count and tracker of the peeked tag.
Identify ==
    /\ parsed.result.tag = "Layout"
    /\ \E in \in IdentifyInputs :
          \E id \in {identify_format_and_channels(
                        parsed.result.format, in.file_size,
                        MetaOf(parsed.result.sample_count, in.lengths),
                        in.pattern_count, parsed.build)} :
             parsed' = [parsed EXCEPT !.result =
                          [ tag |-> "Channels",
                            format |-> parsed.result.format,
                            sample_count |-> parsed.result.sample_count,
                            inputs |-> in, ident |-> id ]]
    /\ UNCHANGED <<engine, fault, buffer, ticks_total, reader, host>>

NextTag == ParseLayout \/ Identify

SpecTag == InitTag /\ [][NextTag]_vars

\* All four bytes are printable ASCII.
AllPrintable(bytes) == \A i \in 1..Len(bytes) : bytes[i] \in 32..126

\* C12: the decoder classifies an input as the 31-instrument layout if and
\* only if the 4 bytes at offset 1080 match a known dialect tag or all four
\* are printable ASCII; in every other case (tags containing NUL bytes
\* included) it classifies the input as the 15-instrument layout.
C12_LayoutByTagBytes ==
    parsed.result.tag = "Layout" =>
        /\ parsed.result.sample_count \in {15, 31}
        /\ parsed.result.sample_count = 31 <=>
               ( parsed.tag_bytes \in KNOWN_TAGS \/ AllPrintable(parsed.tag_bytes) )

----------------------------------------------------------------------------
(* Claims about the tag peek, checked under SpecParse *)

\* parse has run on a file named *.mod.
Parsed == parsed.result.tag # "none" /\ parsed.extension = "mod"

\* parse went on past the tag peek with the 15-instrument layout and decoded
\* from offset 0: the peek gave "\0\0\0\0", and a Song that comes out has 15
\* instrument records and the title held in the input's first 20 bytes.
SoftPeek ==
    /\ parse_layout(parsed.data, parsed.build) =
           [tag |-> "Layout", format |-> NulTag, sample_count |-> 15]
    /\ parsed.result.step # "tag offset"
    /\ parsed.result.tag = "Song" =>
           /\ Len(parsed.result.song.metadata.samples) = 15
           /\ parsed.result.song.metadata.format = NulTag
           /\ parsed.result.song.metadata.name =
                  trim_end_nul(SubSeq(parsed.data, 1, 20))

\* C13 as stated: when the 4-byte tag peek at offset 1080 is out of range
\* (input shorter than 1084 bytes), parse does not abort at the peek: it
\* treats the tag as empty, classifies the input as the 15-instrument layout
\* and continues decoding from offset 0.
C13_ShortInputSoftPeek ==
    (Parsed /\ Len(parsed.data) < 1084) => SoftPeek

\* C13, amended: the soft failure of the peek is that of inputs of 1080 to
\* 1083 bytes; an input shorter than 1080 bytes is refused with a Read fault
\* at the seek that precedes the peek.
C13_SoftPeekFrom1080 ==
    /\ (Parsed /\ Len(parsed.data) \in 1080..1083) => SoftPeek
    /\ (Parsed /\ Len(parsed.data) < 1080) =>
           parsed.result = Ended("Read", "tag offset", TRUE)

\* A file cut inside its tag has come out as a Song of the 15-instrument
\* layout.
C13_Witness ==
    /\ Parsed
    /\ Len(parsed.data) = 1082
    /\ parsed.kind = "MK"
    /\ parsed.result.tag = "Song"
    /\ Len(parsed.result.song.metadata.samples) = 15

\* The tags of detect_sample_count's table and the tags NNCH, NN even in 10..32.
EvenNN == {n \in 10..32 : n % 2 = 0}
FixedTags == KNOWN_TAGS \cup {TagNNCH(n) : n \in EvenNN}

\* identify_format_and_channels on the state's tag with other inputs.
IdentifyWith(in) ==
    identify_format_and_channels(
        parsed.result.format, in.file_size,
        MetaOf(parsed.result.sample_count, in.lengths), in.pattern_count,
        parsed.build)

\* C14: tag resolution does not depend on the heuristic inputs: every tag of
\* the known-tag table and every tag NNCH with even NN in 10..32 resolves to
\* a fixed channel count and a non-Generic tracker (2CHN: 2 channels and
\* FastTracker; NNCH: NN channels), the same for every file size, instrument
\* table and pattern count; the size-derived heuristic is used only for tags
\* outside these sets.
C14_TagResolutionFixed ==
    parsed.result.tag = "Channels" =>
        LET format == parsed.result.format
            ident == parsed.result.ident
        IN  /\ format \in FixedTags =>
                 /\ ident.tag = "Ok"
                 /\ ident.tracker # "Generic"
                 /\ \A in \in IdentifyInputs : IdentifyWith(in) = ident
            /\ format = TagNCHN(2) =>
                 ident.channel_count = 2 /\ ident.tracker = "FastTracker"
            /\ \A n \in EvenNN :
                 format = TagNNCH(n) => ident.channel_count = n
            /\ (ident.tag = "panic" \/ ident.tracker = "Generic") =>
                 /\ format \notin FixedTags
                 /\ LET in == parsed.result.inputs
                         g == guess_channel_count(
                                  in.file_size,
                                  MetaOf(parsed.result.sample_count, in.lengths),
                                  in.pattern_count, parsed.build)
                     IN  ident.tag = g.tag /\ ident.channel_count = g.value

\* "12CH" has resolved to 12 channels on inputs from which the size
\* heuristic derives 8.
C14_Witness ==
    /\ parsed.result.tag = "Channels"
    /\ parsed.tag_bytes = TagNNCH(12)
    /\ parsed.result.inputs =
           [file_size |-> 3140, lengths |-> "one8", pattern_count |-> 1]
    /\ guess_channel_count(3140, MetaOf(31, "one8"), 1, parsed.build).value = 8
    /\ parsed.result.ident.channel_count = 12
    /\ parsed.result.ident.tracker = "FastTracker"

----------------------------------------------------------------------------
(* guess_channel_count on files of an exact size *)

GuessLayouts == {15, 31}
GuessLengths == {"empty", "one8", "full"}
GuessPatternCounts == {1, 2, 3, 64, 128, U8Max}
GuessChannels == {1, 2, 3, 4, 8, 32, 128, U8Max}

\* The size of a file with these instrument records, pattern_count patterns
\* of channels channels and nothing else.
ExactSize(sample_meta, pattern_count, channels) ==
    150 + 30 * Len(sample_meta) + (IF Len(sample_meta) = 31 THEN 4 ELSE 0)
      + SumLengths(sample_meta, Len(sample_meta))
      + pattern_count * RowsPerPattern * 4 * channels

InitGuess ==
    /\ \E n \in GuessLayouts, l \in GuessLengths, pc \in GuessPatternCounts,
          c \in GuessChannels, b \in Builds :
          parsed = [ sample_count |-> n, lengths |-> l, pattern_count |-> pc,
                     channels |-> c, build |-> b, result |-> [tag |-> "none"] ]
    /\ engine = EngineIdle
    /\ fault = "none"
    /\ buffer = <<>>
    /\ ticks_total = 0
    /\ reader = ReaderIdle
    /\ host = HostIdle

\* guess_channel_count on the file of the state's description.
GuessChannelCount ==
    /\ parsed.result.tag = "none"
    /\ \E meta \in {MetaOf(parsed.sample_count, parsed.lengths)} :
          \E g \in {guess_channel_count(
                       ExactSize(meta, parsed.pattern_count, parsed.channels),
                       meta, parsed.pattern_count, parsed.build)} :
             parsed' = [parsed EXCEPT !.result = g]
    /\ UNCHANGED <<engine, fault, buffer, ticks_total, reader, host>>

NextGuess == GuessChannelCount

SpecGuess == InitGuess /\ [][NextGuess]_vars

\* C15: for an input whose size is exactly the fixed header (150 bytes) +
\* instrument metadata + tag size + total declared PCM bytes + pattern_count
\* x 64 x 4 x C, the size-derived heuristic returns channel_count = C, for
\* every choice of instrument lengths, pattern_count >= 1 and C >= 1 that a
\* u8 holds.
C15_GuessOnExactSize ==
    parsed.result.tag # "none" =>
        parsed.result = [tag |-> "Ok", value |-> parsed.channels]

\* The heuristic has returned 4 for a 31-instrument file of two patterns
\* whose instruments declare PCM bytes.
C15_Witness ==
    /\ parsed.result = [tag |-> "Ok", value |-> 4]
    /\ parsed.channels = 4
    /\ parsed.sample_count = 31
    /\ parsed.pattern_count = 2
    /\ parsed.lengths = "full"

----------------------------------------------------------------------------
(* read_note on packed notes *)

NoteInstruments == {0, 1, 15, 16, 31, 85, 170, 240, U8Max}
NotePeriods == {0, 1, 255, 256, 428, 1365, 2730, 3840, 4095}
NoteEffects == 0..15
NoteArguments == {0, 1, 15, 16, 85, 170, U8Max}

InitNote ==
    /\ \E s \in NoteInstruments, p \in NotePeriods, e \in NoteEffects,
          a \in NoteArguments :
          parsed = [ note |-> Note(s, p, e, a), build |-> "release",
                     result |-> [tag |-> "none"] ]
    /\ engine = EngineIdle
    /\ fault = "none"
    /\ buffer = <<>>
    /\ ticks_total = 0
    /\ reader = ReaderIdle
    /\ host = HostIdle

\* read_note on a cursor over the 4 bytes the note packs into.
ReadNote ==
    /\ parsed.result.tag = "none"
    /\ \E res \in {read_note(ByteReaderNew(NoteBytes(parsed.note)), parsed.build)} :
          parsed' = [parsed EXCEPT !.result = res]
    /\ UNCHANGED <<engine, fault, buffer, ticks_total, reader, host>>

NextNote == ReadNote

SpecNote == InitNote /\ [][NextNote]_vars

\* C16: note decoding inverts note encoding: packing an instrument in
\* 0..255, a period in 0..4095, an effect code in 0..15 and an argument in
\* 0..255 into 4 bytes (instrument high nibble in byte 0 high, period high
\* bits in byte 0 low, period low bits in byte 1, instrument low nibble in
\* byte 2 high, effect in byte 2 low, argument in byte 3) and decoding them
\* with read_note reproduces the same four values.
C16_NoteRoundTrip ==
    parsed.result.tag # "none" =>
        /\ parsed.result.tag = "Ok"
        /\ parsed.result.value = parsed.note
        /\ parsed.result.reader.position = 4

\* A note with bits in both nibbles of every field has been decoded.
C16_Witness ==
    /\ parsed.result.tag = "Ok"
    /\ parsed.note = Note(170, 2730, 10, 170)
    /\ NoteBytes(parsed.note) = <<170, 170, 170, 170>>
    /\ parsed.result.value.sample = 170

----------------------------------------------------------------------------
(* Claims about the Song parse returns, checked under SpecParse *)

\* C17: every Song returned by parse has exactly pattern_count patterns,
\* every pattern has exactly 64 lines and every line has exactly
\* channel_count notes; the number of PCM blocks equals the number of
\* instrument metadata records.
C17_SongShape ==
    parsed.result.tag = "Song" =>
        LET song == parsed.result.song IN
        /\ Len(song.patterns) = song.metadata.pattern_count
        /\ \A p \in 1..Len(song.patterns) :
              /\ Len(song.patterns[p]) = RowsPerPattern
              /\ \A row \in 1..RowsPerPattern :
                    Len(song.patterns[p][row]) = song.metadata.channel_count
        /\ Len(song.samples) = Len(song.metadata.samples)

\* A whole two-channel file of two patterns has come out as a Song.
C17_Witness ==
    /\ parsed.result.tag = "Song"
    /\ parsed.kind = "2CHN"
    /\ Len(parsed.data) = parsed.full
    /\ parsed.result.song.metadata.pattern_count = 2
    /\ parsed.result.song.metadata.channel_count = 2
    /\ Len(parsed.result.song.samples) = 31

----------------------------------------------------------------------------
(* process_effects on its own: one channel, one call *)

EffectPeriods == {0, 428, U16Max}
EffectBasePeriods == {0, 428, U16Max - 5}
EffectArpCounters == {0, 1, 2, U8Max}
EffectVolumes == {0, 64}
EffectCodes == 0..15
EffectArgs == {0, 15, 16, 55, 144, U8Max}
EffectTicks == 0..9
\* The arguments of the extended command 9 (retrigger), 0x90..0x9F.
RetriggerArgs == 144..159

InitEffect ==
    /\ \E p \in EffectPeriods, bp \in EffectBasePeriods, ac \in EffectArpCounters,
          v \in EffectVolumes, code \in EffectCodes, t \in EffectTicks :
          \E arg \in EffectArgs \cup (IF code = 14 THEN RetriggerArgs ELSE {}) :
          engine = [ before |-> [ChannelStateDefault EXCEPT
                                   !.period = p, !.base_period = bp,
                                   !.arp_counter = ac, !.volume = v,
                                   !.effect = code, !.effect_arg = arg],
                     tick |-> t, called |-> FALSE ]
    /\ fault = "none"
    /\ buffer = <<>>
    /\ ticks_total = 0
    /\ reader = ReaderIdle
    /\ host = HostIdle
    /\ parsed = ParsedIdle

\* channel.process_effects(tick), returning.
ProcessEffects ==
    /\ ~engine.called
    /\ fault = "none"
    /\ ~process_effects_panics(engine.before, engine.tick)
    /\ engine' = [ before |-> engine.before, tick |-> engine.tick, called |-> TRUE,
                   after |-> process_effects(engine.before, engine.tick) ]
    /\ UNCHANGED <<fault, buffer, ticks_total, reader, host, parsed>>

\* channel.process_effects(tick), panicking.
ProcessEffectsPanic ==
    /\ ~engine.called
    /\ fault = "none"
    /\ process_effects_panics(engine.before, engine.tick)
    /\ fault' = "panic in process_effects"
    /\ UNCHANGED <<engine, buffer, ticks_total, reader, host, parsed>>

NextEffect == ProcessEffects \/ ProcessEffectsPanic

SpecEffect == InitEffect /\ [][NextEffect]_vars

\* C18: processing an arpeggio effect (code 0x0) with argument 0x00 leaves
\* the channel's period, base period and arpeggio counter unchanged at every
\* tick 0..9.
C18_ArpeggioZeroNoOp ==
    /\ (engine.before.effect = 0 /\ engine.before.effect_arg = 0) =>
           ~process_effects_panics(engine.before, engine.tick)
    /\ (engine.called /\ engine.before.effect = 0 /\ engine.before.effect_arg = 0) =>
           /\ engine.after.period = engine.before.period
           /\ engine.after.base_period = engine.before.base_period
           /\ engine.after.arp_counter = engine.before.arp_counter

\* An arpeggio with argument 0 has been processed at tick 9 on a channel
\* whose period differs from its base period.
C18_Witness ==
    /\ engine.called
    /\ engine.before.effect = 0
    /\ engine.before.effect_arg = 0
    /\ engine.tick = 9
    /\ engine.before.period # engine.before.base_period
    /\ engine.before.arp_counter = 2

----------------------------------------------------------------------------
(* Claims about seek, checked under SpecReader *)

\* C19: seek(pos) on a buffer of length L succeeds if and only if pos <= L;
\* on success it sets the position to pos and returns the position held
\* immediately before the call; on failure it returns a Read fault and
\* leaves the position unchanged.
C19_SeekContract ==
    reader.last.op = "seek" =>
        LET pos == reader.last.arg
            held == reader.last.before
        IN  /\ reader.last.tag \in {"Ok", "Err"}
            /\ reader.last.tag = "Ok" <=> pos <= Len(reader.data)
            /\ reader.last.tag = "Ok" =>
                  /\ reader.position = pos
                  /\ reader.last.value = held
            /\ reader.last.tag = "Err" =>
                  /\ reader.position = held
                  /\ reader.last.value = "Out of bounds seek"

\* A seek to the very end of the 12-byte buffer has succeeded from the
\* middle of it.
C19_Witness ==
    /\ reader.last.op = "seek"
    /\ reader.last.tag = "Ok"
    /\ Len(reader.data) = 12
    /\ reader.last.arg = 12
    /\ reader.last.before = 6
    /\ reader.position = 12

----------------------------------------------------------------------------
(* A caller that reads, seeks back and reads again (as test_seeking does) *)

TripCounts == {0, 1, 2, 3, 6, 12, 13}
TripBacks == {"p", "previous"}

\* The caller is about to move to p; it will come back either to p itself
\* or to the position a seek issued at p returns as the previous one.
InitTrip ==
    /\ \E d \in ReaderInputs, b \in Builds, back \in TripBacks, n \in TripCounts :
          \E p \in 0..(Len(d) + 1) :
             reader = [ data |-> d, position |-> 0, build |-> b, pc |-> "goto",
                        p |-> p, n |-> n, back |-> back, previous |-> 0,
                        first |-> <<>>, second |-> <<>> ]
    /\ engine = EngineIdle
    /\ fault = "none"
    /\ buffer = <<>>
    /\ ticks_total = 0
    /\ host = HostIdle
    /\ parsed = ParsedIdle

\* The reader after a call, and the caller's next step (a fault ends the trip).
TripStep(r, next) == [r.reader EXCEPT !.pc = IF r.tag = "Ok" THEN next ELSE "failed"]

\* reader.seek(p)
TripGoto ==
    /\ reader.pc = "goto"
    /\ \E r \in {seek(reader, reader.p)} :
          reader' = TripStep(r, IF reader.back = "previous" THEN "mark" ELSE "read")
    /\ UNCHANGED <<engine, fault, buffer, ticks_total, host, parsed>>

\* let previous = reader.seek(reader.position())
TripMark ==
    /\ reader.pc = "mark"
    /\ \E r \in {seek(reader, reader.position)} :
          reader' = [TripStep(r, "read") EXCEPT
                       !.previous = IF r.tag = "Ok" THEN r.value ELSE @]
    /\ UNCHANGED <<engine, fault, buffer, ticks_total, host, parsed>>

\* let first = reader.read_bytes(n)
TripRead ==
    /\ reader.pc = "read"
    /\ \E r \in {read_bytes(reader, reader.n, reader.build)} :
          reader' = [TripStep(r, "seek back") EXCEPT
                       !.first = IF r.tag = "Ok" THEN r.value ELSE @]
    /\ UNCHANGED <<engine, fault, buffer, ticks_total, host, parsed>>

\* reader.seek(previous), or reader.seek(p)
TripSeekBack ==
    /\ reader.pc = "seek back"
    /\ \E r \in {seek(reader, IF reader.back = "previous" THEN reader.previous
                               ELSE reader.p)} :
          reader' = TripStep(r, "read again")
    /\ UNCHANGED <<engine, fault, buffer, ticks_total, host, parsed>>

\* let second = reader.read_bytes(n)
TripReadAgain ==
    /\ reader.pc = "read again"
    /\ \E r \in {read_bytes(reader, reader.n, reader.build)} :
          reader' = [TripStep(r, "done") EXCEPT
                       !.second = IF r.tag = "Ok" THEN r.value ELSE @]
    /\ UNCHANGED <<engine, fault, buffer, ticks_total, host, parsed>>

NextTrip == TripGoto \/ TripMark \/ TripRead \/ TripSeekBack \/ TripReadAgain

SpecTrip == InitTrip /\ [][NextTrip]_vars

\* C20: for every position p and count n with p + n <= buffer length: reading
\* n bytes at p, seeking back to the position returned as 'previous' (or to
\* p), and reading n bytes again yields the same bytes and ends at position
\* p + n.
C20_ReadSeekReadAgain ==
    reader.p + reader.n <= Len(reader.data) =>
        /\ reader.pc # "failed"
        /\ reader.pc = "done" =>
              /\ reader.second = reader.first
              /\ reader.first = SubSeq(reader.data, reader.p + 1, reader.p + reader.n)
              /\ reader.position = reader.p + reader.n

\* The second half of the 12-byte buffer has been read twice, by way of the
\* position a seek returned.
C20_Witness ==
    /\ reader.pc = "done"
    /\ reader.back = "previous"
    /\ reader.p = 6
    /\ reader.n = 6
    /\ reader.previous = 6
    /\ reader.second = <<6, 5, 4, 3, 2, 1>>
    /\ reader.position = 12

----------------------------------------------------------------------------
(* read_str on its own: text, NUL padding and bytes that are not UTF-8 *)

\* "Hello\0\0"; 'A', 0xFF, 'B', 'C'; U+0141 'A' NUL; 'A' and half a char.
StrInputs ==
    { <<>>, <<72, 101, 108, 108, 111, 0, 0>>, <<65, 255, 66, 67>>,
      <<197, 129, 65, 0>>, <<65, 197>> }
StrCounts == {0, 1, 2, 3, 5, 8}

InitStr ==
    /\ \E d \in StrInputs, b \in Builds :
          reader = [data |-> d, position |-> 0, build |-> b,
                    last |-> [op |-> "none"]]
    /\ engine = EngineIdle
    /\ fault = "none"
    /\ buffer = <<>>
    /\ ticks_total = 0
    /\ host = HostIdle
    /\ parsed = ParsedIdle

\* reader.read_str(length)
ReadStr ==
    /\ fault = "none"
    /\ \E length \in StrCounts :
          \E r \in {read_str(reader, length, reader.build)} :
             reader' = [r.reader EXCEPT
                          !.last = LastCall("read_str", reader.position, length, r)]
    /\ UNCHANGED <<engine, fault, buffer, ticks_total, host, parsed>>

NextStr == ReadStr

SpecStr == InitStr /\ [][NextStr]_vars

\* C21: read_str(n) leaves the cursor position unchanged whenever it fails,
\* both when fewer than n bytes remain and when the n bytes are not validly
\* encoded text.
C21_ReadStrFailureKeepsPosition ==
    (reader.last.op = "read_str" /\ reader.last.tag = "Err") =>
        reader.position = reader.last.before

----------------------------------------------------------------------------
(* Claims about the tick-0 trigger, checked under Spec *)

\* next_tick has run at tick 0 and returned.
TickZeroStep ==
    /\ engine.tick = 0
    /\ fault' = "none"
    /\ ticks_total' = ticks_total + 1

\* C22: a tick-0 trigger by a note with a nonzero period and instrument
\* reference 0 resets the playback cursor and base period but leaves the
\* channel's active instrument index, volume and loop start/length
\* unchanged, for every prior value of the active instrument index.
C22_TriggerKeepsInstrument ==
    [][ TickZeroStep =>
          \A i \in 1..Len(engine.channels) :
             LET note == CurrentLine(engine)[i]
                 was == engine.channels[i]
                 now == engine'.channels[i]
             IN  (note.period # 0 /\ note.sample = 0) =>
                    /\ now.position_in_sample = 0
                    /\ now.base_period = note.period
                    /\ now.sample_index = was.sample_index
                    /\ now.repeat_offset = was.repeat_offset
                    /\ now.repeat_length = was.repeat_length
                    /\ (note.effect # 12 => now.volume = was.volume) ]_vars

----------------------------------------------------------------------------
(* Claims about single effects, checked under SpecEffect *)

\* C23: volume slide (code 0xA) applied at a tick > 0 with argument 0xXY
\* adds X to the volume when X > 0, and subtracts Y (the low nibble) from the
\* volume when X = 0 and Y > 0; at tick 0 it leaves the volume unchanged.
\* (Sums past 64 are left to the claim about the volume range.)
C23_VolumeSlide ==
    (engine.called /\ engine.before.effect = 10) =>
        LET X == engine.before.effect_arg \div 16
            Y == engine.before.effect_arg % 16
            volume == engine.before.volume
        IN  /\ engine.tick = 0 => engine.after.volume = volume
            /\ (engine.tick > 0 /\ X > 0 /\ volume + X <= MaxVolume) =>
                   engine.after.volume = volume + X
            /\ (engine.tick > 0 /\ X = 0 /\ Y > 0) =>
                   engine.after.volume = saturating_sub(volume, Y)

----------------------------------------------------------------------------
(* Claims about the timing and jump commands, checked under Spec *)

\* C24: effect 0xF applied at tick 0 changes the engine's timing state: an
\* argument <= 0x1F sets speed (ticks per row) to the argument, so the
\* following rows last that many ticks; a larger argument sets tempo,
\* tick_duration = 2.5 / tempo and recomputes samples_per_tick from the
\* current sample rate.
C24_SetSpeedTempo ==
    [][ TickZeroStep =>
          \A i \in 1..Len(engine.channels) :
             LET note == CurrentLine(engine)[i] IN
             note.effect = 15 =>
                IF note.argument <= 31
                THEN engine'.speed = note.argument
                ELSE /\ engine'.tempo = note.argument
                     /\ engine'.samples_per_tick =
                            (engine.sample_rate * 5) \div (2 * note.argument) ]_vars

\* next_tick has run at the last tick of a row and returned.
RowEndStep ==
    /\ engine.tick = engine.speed - 1
    /\ fault' = "none"
    /\ ticks_total' = ticks_total + 1

\* C25: after the last tick of a row in which a channel carries position
\* jump (0xB) or pattern break (0xD), the next row played is the jump target
\* (row 0 of the order-table position given by the argument for 0xB; the
\* argument's row of the next pattern for 0xD) instead of the sequential
\* successor row, and the jump is not applied before the row's last tick.
C25_JumpAtRowBoundary ==
    [][ /\ RowEndStep =>
              \A i \in 1..Len(engine.channels) :
                 LET ch == engine.channels[i]
                     count == Len(SongOf(engine).patterns)
                 IN  /\ ch.effect = 11 =>
                           /\ engine'.current_row = 0
                           /\ engine'.current_pattern =
                                  SongOf(engine).metadata.pattern_table[ch.effect_arg + 1]
                     /\ ch.effect = 13 =>
                           /\ engine'.current_row = ch.effect_arg
                           /\ engine'.current_pattern =
                                  (engine.current_pattern + 1) % count
        /\ (fault' = "none" /\ engine.tick < engine.speed - 1) =>
              /\ engine'.current_row = engine.current_row
              /\ engine'.current_pattern = engine.current_pattern ]_vars

----------------------------------------------------------------------------
(* Claims about the retrigger command, checked under SpecEffect *)

\* C26: processing the extended retrigger-note effect (0xE with sub-command
\* 9) never causes an arithmetic fault at any tick, for every argument byte
\* 0x90..0x9F including the zero retrigger interval 0x90.
C26_RetriggerNoFault ==
    (engine.before.effect = 14 /\ engine.before.effect_arg \in RetriggerArgs) =>
        /\ fault = "none"
        /\ engine.called => engine.after = engine.before

\* The retrigger command with interval 0 (0x90) has been processed at tick 9.
C26_Witness ==
    /\ engine.called
    /\ engine.before.effect = 14
    /\ engine.before.effect_arg = 144
    /\ engine.tick = 9
    /\ fault = "none"

----------------------------------------------------------------------------
(* Claims about the pull driver, checked under SpecMain *)

\* A run of the data callback has returned, with samples_per_tick > 0.
CallbackStep ==
    /\ host.stream = "alive"
    /\ host'.callbacks = host.callbacks + 1
    /\ fault' = "none"
    /\ engine.samples_per_tick > 0

\* C27: in pull mode, tick advancement happens before or interleaved with
\* buffer filling so that, for every requested buffer size, no more than one
\* tick's worth of frames (samples_per_tick) is rendered between two
\* consecutive next_tick calls.  (The frames rendered since the last
\* next_tick call are those left over from the callback before and those of
\* this callback's fill, which precedes its first next_tick call.)
C27_OneTickOfFramesBetweenTicks ==
    [][ CallbackStep =>
          engine.samples_since_tick + (host'.frames_total - host.frames_total)
              <= engine.samples_per_tick ]_vars

----------------------------------------------------------------------------
(* Claims about the mixer's cursor, checked under SpecAudio *)

\* The channel plays an instrument with I8 data and carries that instrument's
\* own loop fields, with a loop of positive length and a finite cursor.
LoopingChannel(song, ch) ==
    /\ HasData(song, ch)
    /\ ch.sample_index < Len(song.metadata.samples)
    /\ ch.repeat_offset = song.metadata.samples[ch.sample_index + 1].repeat_offset
    /\ ch.repeat_length = song.metadata.samples[ch.sample_index + 1].repeat_length
    /\ ch.repeat_length > 0
    /\ ch.position_in_sample # F32Inf

\* The channel's cursor is inside its instrument's data or inside its loop
\* region [repeat_offset, repeat_offset + repeat_length).
CursorInDataOrLoop(song, ch) ==
    LET data == song.samples[ch.sample_index + 1].data
        pos == CursorIndex(ch.position_in_sample)
    IN  \/ pos < Len(data)
        \/ /\ pos >= ch.repeat_offset
           /\ pos < ch.repeat_offset + ch.repeat_length

\* A get_audio_buffer call has returned after rendering at least one frame,
\* at a sample rate the host has set.
FillStep ==
    /\ fault = "none" /\ fault' = "none"
    /\ ticks_total' = ticks_total
    /\ engine'.channel_count = engine.channel_count
    /\ engine'.sample_rate = engine.sample_rate
    /\ engine.sample_rate > 0
    /\ Len(buffer') >= engine.channel_count
    /\ engine.channel_count > 0

\* C28: during buffer fill, when a channel's cursor passes the end of its
\* instrument's data and the channel's loop length is > 0, the cursor wraps
\* into the loop region [loop start, loop start + loop length): a looping
\* channel whose cursor is inside the data or the loop before a fill has it
\* there after the fill as well.
C28_CursorWrapsIntoLoop ==
    [][ FillStep =>
          \A i \in 1..Len(engine.channels) :
             ( /\ LoopingChannel(SongOf(engine), engine.channels[i])
               /\ CursorInDataOrLoop(SongOf(engine), engine.channels[i]) )
             => CursorInDataOrLoop(SongOf(engine), engine'.channels[i]) ]_vars

----------------------------------------------------------------------------
(* Claims about the numbers parse derives, checked under SpecParse *)

\* The offset of the order table in the input: the 20-byte title, the
\* 30-byte instrument records and the count and jump bytes come before it.
TableOffset == 20 + 30 * (IF parsed.kind = "old15" THEN 15 ELSE 31) + 2

\* The input holds its whole 128-byte order table, and parse has run.
TableRead ==
    /\ parsed.result.tag # "none"
    /\ parsed.extension = "mod"
    /\ Len(parsed.data) >= TableOffset + OrderTableLen + 4

\* The order table as it stands in the input.
InputTable == SubSeq(parsed.data, TableOffset + 1, TableOffset + OrderTableLen)

\* C29: for every 128-byte pattern order table (entries 0..255), the decoded
\* pattern_count equals max(table) + 1, and exactly that many patterns are
\* then decoded: parse does not stop at the count, and a Song it returns has
\* that count and that many patterns.
C29_PatternCountIsMaxPlusOne ==
    TableRead =>
      /\ ~(parsed.result.tag = "panic" /\ parsed.result.step = "pattern count")
      /\ parsed.result.tag = "Song" =>
            /\ parsed.result.song.metadata.pattern_count = SeqMax(InputTable) + 1
            /\ Len(parsed.result.song.patterns) = SeqMax(InputTable) + 1

----------------------------------------------------------------------------
(* read_sample on instrument records, and the PCM block read that follows *)

SampleWords == {0, 1, 2, 100, 32767, 32768, 40000, U16Max}
LoopStartWords == {0, 1, 32768}
LoopLengthWords == {0, 1, 2, 32768}

InitSample ==
    /\ \E w \in SampleWords, ro \in LoopStartWords, rl \in LoopLengthWords,
          b \in Builds :
          parsed = [ words |-> [length |-> w, repeat_offset |-> ro,
                                repeat_length |-> rl],
                     build |-> b,
                     result |-> [tag |-> "none"],
                     block |-> [tag |-> "none"] ]
    /\ engine = EngineIdle
    /\ fault = "none"
    /\ buffer = <<>>
    /\ ticks_total = 0
    /\ reader = ReaderIdle
    /\ host = HostIdle

\* read_sample on a cursor over the 30-byte record holding the three words.
ReadSample ==
    /\ parsed.result.tag = "none"
    /\ \E res \in {read_sample(
                      ByteReaderNew(RecordBytes(<<65>>, parsed.words.length, 0, 64,
                                                parsed.words.repeat_offset,
                                                parsed.words.repeat_length)),
                      parsed.build)} :
          parsed' = [parsed EXCEPT !.result = res]
    /\ UNCHANGED <<engine, fault, buffer, ticks_total, reader, host>>

\* parse's PCM read for the instrument, on a cursor over the 2 x w bytes the
\* record announces and two bytes more.
ReadBlock ==
    /\ parsed.result.tag = "Ok"
    /\ parsed.block.tag = "none"
    /\ \E blk \in {read_pcm_block(ByteReaderNew(Zeros(2 * parsed.words.length + 2)),
                                   parsed.result.value.length, parsed.build)} :
          parsed' = [parsed EXCEPT !.block =
                        [tag |-> blk.tag,
                         length |-> IF blk.tag = "Ok" THEN Len(blk.value) ELSE 0]]
    /\ UNCHANGED <<engine, fault, buffer, ticks_total, reader, host>>

NextSample == ReadSample \/ ReadBlock

SpecSample == InitSample /\ [][NextSample]_vars

\* C30: for every 16-bit stored word count w (0..65535) the decoded
\* instrument length in bytes equals 2 x w, and the PCM block read for that
\* instrument is exactly 2 x w bytes long; the same doubling holds for loop
\* start and loop length.
C30_WordsDoubled ==
    /\ parsed.result.tag # "none" =>
          /\ parsed.result.tag = "Ok"
          /\ parsed.result.value.length = 2 * parsed.words.length
          /\ parsed.result.value.repeat_offset = 2 * parsed.words.repeat_offset
          /\ parsed.result.value.repeat_length = 2 * parsed.words.repeat_length
    /\ parsed.block.tag # "none" =>
          /\ parsed.block.tag = "Ok"
          /\ parsed.block.length = 2 * parsed.words.length

----------------------------------------------------------------------------
(* The drivers over a whole pattern: main.rs run until the song wraps *)

PlayTicks == 400        \* next_tick calls per run: more than speed * 64
PlayFrames == 1200      \* frames rendered per run
PlayCallbacks == 400    \* callbacks per run
PlayCallbackLen == 6    \* the callback buffer, in lanes

PlayCallback == AudioCallbackOf({PlayCallbackLen}, PlayCallbacks, PlayFrames)

PlaySpin == CatchUpSpinUpTo(PlayTicks)

PlayPushTick == PushTickUpTo(PlayTicks)

NextPlay ==
    \/ MainStart
    \/ PlayCallback
    \/ PlaySpin
    \/ PlayPushTick
    \/ LeaveBlock
    \/ MainRecv

SpecPlay == InitMain /\ [][NextPlay]_vars

----------------------------------------------------------------------------
(* The callback's catch-up loop as a process of its own *)

\* One iteration of the catch-up loop with samples_per_tick = 0: next_tick,
\* then `samples_since_tick - 0`.  The calls are not counted here, so that
\* the engine's states recur as the song wraps.
SpinOnce ==
    /\ fault = "none"
    /\ host.callback = "looping"
    /\ engine.samples_since_tick >= engine.samples_per_tick
    /\ IF next_tick_panics(engine)
       THEN fault' = "panic in next_tick" /\ UNCHANGED engine
       ELSE /\ engine' = [next_tick(engine) EXCEPT
                            !.samples_since_tick = @ - engine.samples_per_tick]
            /\ UNCHANGED fault
    /\ UNCHANGED <<buffer, ticks_total, reader, host, parsed>>

NextLoop ==
    \/ MainStart
    \/ AudioCallback
    \/ SpinOnce
    \/ PushTick
    \/ LeaveBlock
    \/ MainRecv

\* The audio thread keeps running the callback it is in.
SpecLoop == InitMain /\ [][NextLoop]_vars /\ WF_vars(SpinOnce)

\* C32: the catch-up loop terminates in every audio callback, for every
\* configured sample rate and buffer size, including the sample rates for
\* which samples_per_tick is 0: a callback that is in its loop leaves it.
C32_CatchUpTerminates ==
    (host.callback = "looping") ~> (host.callback = "idle" \/ fault # "none")

----------------------------------------------------------------------------
(* Claims about instrument references, checked under Spec *)

\* Every note of the current row refers to an instrument in 0..N, N the
\* number of instrument records.
RowReferencesValid(e) ==
    /\ e.current_pattern < Len(SongOf(e).patterns)
    /\ e.current_row < RowsPerPattern
    /\ Len(CurrentLine(e)) = Len(e.channels)
    /\ \A i \in 1..Len(e.channels) :
          CurrentLine(e)[i].sample \in 0..Len(SongOf(e).metadata.samples)

\* An effect of the current row aborts the tick-0 call.
RowEffectAborts(e) ==
    \E i \in 1..Len(e.channels) :
        process_effects_panics(Trigger(e, e.channels[i], CurrentLine(e)[i]), e.tick)

\* C33: next_tick at tick 0 completes without a fault for every row whose
\* notes carry instrument references in 0..N (N, the number of instrument
\* records, included), in the row listing's lookup and in the trigger logic's
\* metadata lookup alike.
C33_ValidReferencesNoFault ==
    [][ ( /\ engine.tick = 0
          /\ fault = "none"
          /\ RowReferencesValid(engine)
          /\ ~RowEffectAborts(engine) )
        => fault' = "none" ]_vars

----------------------------------------------------------------------------
(* Claims about how parse ends, checked under SpecParse *)

\* C34: for every byte input parse ends by returning a Song or a fault
\* value; it never aborts abnormally (arithmetic overflow or underflow,
\* division by zero, index out of range), whatever the order table entries,
\* instrument word counts, file size, tag or instrument references are.
C34_ParseAlwaysReturns ==
    parsed.result.tag # "none" => parsed.result.tag \in {"Song", "Read", "Io"}

----------------------------------------------------------------------------
(* main.rs lines 37-39: Song::new, then Engine::new on the Song *)

\* Engine::new (engine/mod.rs): ModEngine::new for the ProTracker and
\* NoiseTracker variants, `todo!()` for every other one.  The engine holds
\* the Song itself (song 0 here: it is none of the family's).
EngineNew(song) ==
    IF song.metadata.tracker \in {"ProTracker", "NoiseTracker"}
    THEN [ tag |-> "Mod",
           engine |->
             [ song |-> 0,
               current_row |-> 0, current_pattern |-> 0,
               tick |-> 0, speed |-> DefaultSpeed, tempo |-> DefaultTempo,
               channel_count |-> 0,
               samples_per_tick |-> 0, samples_since_tick |-> 0,
               channels |-> [c \in 1..song.metadata.channel_count |->
                               ChannelStateDefault],
               sample_rate |-> 0 ] ]
    ELSE [tag |-> "panic", engine |-> EngineIdle]

\* `let mut engine = Engine::new(track);`
MakeEngine ==
    /\ parsed.result.tag = "Song"
    /\ engine = EngineIdle
    /\ fault = "none"
    /\ \E made \in {EngineNew(parsed.result.song)} :
          /\ engine' = made.engine
          /\ fault' = IF made.tag = "panic" THEN "panic in Engine::new" ELSE "none"
    /\ UNCHANGED <<buffer, ticks_total, reader, host, parsed>>

NextLoad == LoadSong \/ MakeEngine

SpecLoad == InitParse /\ [][NextLoad]_vars

\* C35: an engine can be constructed from every Song that parse returns:
\* Engine::new yields an engine for every detected tracker variant and never
\* aborts.
C35_EngineForEverySong ==
    /\ fault = "none"
    /\ engine # EngineIdle => parsed.result.tag = "Song"

====
